---------------------------- MODULE Spec2Model ----------------------------
(***************************************************************************)
(* A model of evchargeapp: the plugin selector (plugins/base.py), the      *)
(* FordPass record assembler (plugins/fordpass.py and its older copy in    *)
(* charge_parser.py), the CSV ledger writer and the batch driver           *)
(* (charge_parser.py).                                                     *)
(*                                                                         *)
(* Each part of the program has its own specification over its own group   *)
(* of variables; the other groups stay at their initial values.            *)
(***************************************************************************)
EXTENDS Integers, Sequences, FiniteSets, TLC

VARIABLES
    \* ---- plugin selection (plugins/base.py)
    detect_scores,  \* detect_scores[i]: what plugin i's detect(text) returns
    scores,         \* the list score_plugins returns: <<[score, plugin]>>
    picked,         \* what pick_plugin_from_scores returns: a plugin or None
    sel_pc,         \* "start" | "scored" | "picked"
    \* ---- percentage repair of the record assembler (plugins/fordpass.py)
    start_pct,      \* additional["start_pct"]: digits, or "" (not found)
    end_pct,        \* additional["end_pct"]
    charge_pct,     \* charge_pct as extracted from the charge text
    record_pcts,    \* the three percentage fields of the assembled record
    rep_pc,         \* "extracted" | "assembled"
    \* ---- the CSV ledger and write_csv called in sequence (charge_parser.py)
    ledger,         \* the file at output_path: [exists, header, rows]
    call_rows,      \* the rows argument of the last write_csv call
    call_append,    \* the append argument of the last write_csv call
    call_result,    \* how the last call ended: [called, raised, added]
    \* ---- two write_csv calls running at once on the ledger (charge_parser.py)
    prior,          \* the ledger before the two calls
    w_pc,           \* per call: "idle" | "merged" | "opened" | "writing" |
                    \*           "returned" | "raised" | "killed"
    w_rows,         \* per call: the rows argument
    w_append,       \* per call: the append argument
    w_old,          \* per call: the ledger as it was when the call began
    w_combined,     \* per call: the local list combined, sorted
    w_added,        \* per call: the local counter added
    w_buf,          \* per call: what the open handle holds, not yet in the file
    \* ---- a batch run of main (charge_parser.py)
    m_args,         \* [text_only, append, plugin_name]
    m_images,       \* image_paths: per image what OCR does and what parse gives
    m_pc,           \* "start" | "ocr" | "resolve" | "prompt" | "write" |
                    \* "returned" | "exit" | "raised"
    m_idx,          \* the image the for loop is at
    m_rows,         \* the local list rows
    m_error,        \* the message of the exception that ended main, or None
    \* ---- FordPassPlugin.parse on one text
    p_module,       \* the module whose FordPassPlugin is called
    p_text,         \* text.splitlines(), each line stripped
    p_pc,           \* "text" | "parsed"
    p_record,       \* the dict parse returned
    \* ---- extract_label_value and extract_section on one list of lines
    l_lines,        \* the argument lines
    l_label,        \* the argument label
    l_value,        \* what extract_label_value returned, or None
    l_section,      \* what extract_section returned, or None
    \* ---- the for loop of extract_additional_details
    d_module,       \* the module whose extract_additional_details runs
    d_section,      \* the local list section
    d_idx,          \* the line the loop is at
    d_at,           \* the locals result, current_date and pending_time
    d_pc,           \* "loop" | "returned"
    \* ---- plugin discovery (plugins/base.py)
    c_parents,      \* c_parents[c]: the bases of class c (0 is ChargingAppPlugin)
    c_names,        \* c_names[c]: the attribute name of class c
    c_calls,        \* what the calls of discover_plugins returned, in order
    \* ---- extract_keywords (generate_plugin.py)
    k_text,         \* the argument text, as its words
    k_limit,        \* the argument limit
    k_keywords      \* the list extract_keywords returned, or None

selVars == <<detect_scores, scores, picked, sel_pc>>
repVars == <<start_pct, end_pct, charge_pct, record_pcts, rep_pc>>

ledVars == <<ledger, call_rows, call_append, call_result>>

wrVars == <<prior, w_pc, w_rows, w_append, w_old, w_combined, w_added, w_buf>>

mainVars == <<m_args, m_images, m_pc, m_idx, m_rows, m_error>>

parseVars == <<p_module, p_text, p_pc, p_record>>

labelVars == <<l_lines, l_label, l_value, l_section>>

detailVars == <<d_module, d_section, d_idx, d_at, d_pc>>

discoverVars == <<c_parents, c_names, c_calls>>

keywordVars == <<k_text, k_limit, k_keywords>>

laterVars == <<labelVars, detailVars, discoverVars, keywordVars>>

vars == <<selVars, repVars, ledVars, wrVars, mainVars, parseVars, laterVars>>

\* Optional[ChargingAppPlugin]: None, or the plugin (its registration index).
None == <<>>
Some(p) == <<p>>

(***************************************************************************)
(* Bounds of the model.                                                    *)
(***************************************************************************)
MaxPlugins == 3     \* registered plugins
MaxScore == 3       \* detect scores, in quarter points: 0..MaxScore
MaxPct == 110       \* extracted percentages: 0..MaxPct
MaxRows == 2        \* rows handed to one write_csv call
MaxLedger == 3      \* rows of the ledger
MaxPrior == 2       \* rows written before two concurrent calls begin
MaxWriterRows == 1  \* rows handed to each of two concurrent calls
MaxImages == 2      \* images of one batch run
MaxLines == 3       \* lines of one OCR text

(***************************************************************************)
(* Plugin selection                                                        *)
(***************************************************************************)

\* list.sort(key=pair[0], reverse=True) is stable: a pair is placed after
\* every pair of the sorted prefix whose score is >= its own.
RECURSIVE InsertByScoreDesc(_, _)
InsertByScoreDesc(sorted, pair) ==
    IF sorted = <<>> THEN <<pair>>
    ELSE IF Head(sorted).score >= pair.score
         THEN <<Head(sorted)>> \o InsertByScoreDesc(Tail(sorted), pair)
         ELSE <<pair>> \o sorted

RECURSIVE SortByScoreDesc(_)
SortByScoreDesc(pairs) ==
    IF pairs = <<>> THEN <<>>
    ELSE InsertByScoreDesc(SortByScoreDesc(SubSeq(pairs, 1, Len(pairs) - 1)),
                           pairs[Len(pairs)])

\* score_plugins: one (detect(text), plugin) pair per plugin, sorted by
\* descending score.
score_plugins(detected) ==
    SortByScoreDesc([i \in 1..Len(detected) |-> [score |-> detected[i], plugin |-> i]])

\* The mutant of pick_plugin_from_scores: the tie test is forgotten.
pick_plugin_no_tie(s) ==
    IF s = <<>> THEN None
    ELSE IF s[1].score <= 0 THEN None
    ELSE Some(s[1].plugin)

\* pick_plugin_from_scores with the top score only required not to be
\* below the next one
pick_plugin_accepts_tie(s) ==
    IF s = <<>> THEN None
    ELSE IF s[1].score <= 0 THEN None
    ELSE IF Len(s) = 1 THEN Some(s[1].plugin)
    ELSE IF s[1].score >= s[2].score THEN Some(s[1].plugin)
    ELSE None

\* pick_plugin_from_scores
pick_plugin_from_scores(s) ==
    IF s = <<>> THEN None
    ELSE IF s[1].score <= 0 THEN None
    ELSE IF Len(s) = 1 THEN Some(s[1].plugin)
    ELSE IF s[1].score > s[2].score THEN Some(s[1].plugin)
    ELSE LET tied == {i \in 1..Len(s) : s[i].score = s[1].score}
         IN  IF Cardinality(tied) = 1 THEN Some(s[1].plugin) ELSE None

SelIdle ==
    /\ detect_scores = <<>>
    /\ scores = <<>>
    /\ picked = None
    /\ sel_pc = "idle"

SelStart ==
    /\ detect_scores \in UNION {[1..n -> 0..MaxScore] : n \in 0..MaxPlugins}
    /\ scores = <<>>
    /\ picked = None
    /\ sel_pc = "start"

\* resolve_plugin_for_text, first statement
ScorePlugins ==
    /\ sel_pc = "start"
    /\ scores' = score_plugins(detect_scores)
    /\ sel_pc' = "scored"
    /\ UNCHANGED <<detect_scores, picked, repVars, ledVars, wrVars, mainVars, parseVars, laterVars>>

\* resolve_plugin_for_text, second statement
PickPlugin ==
    /\ sel_pc = "scored"
    /\ picked' = pick_plugin_from_scores(scores)
    /\ sel_pc' = "picked"
    /\ UNCHANGED <<detect_scores, scores, repVars, ledVars, wrVars, mainVars, parseVars, laterVars>>

\* The lists of (score, plugin) pairs a caller can pass, in any order, each
\* plugin in one pair at most
ScoreLists ==
    {s \in UNION {[1..n -> [score : 0..MaxScore, plugin : 1..MaxPlugins]] :
                    n \in 0..MaxPlugins} :
        \A i, j \in DOMAIN s : i # j => s[i].plugin # s[j].plugin}

\* pick_plugin_from_scores is about to be called on a list of the caller's
PickStart ==
    /\ detect_scores = <<>>
    /\ scores \in ScoreLists
    /\ picked = None
    /\ sel_pc = "scored"

\* A plugin is the strict, positive top scorer.
StrictTop(p) ==
    /\ detect_scores[p] > 0
    /\ \A q \in DOMAIN detect_scores : q # p => detect_scores[p] > detect_scores[q]

\* C1: score_plugins followed by pick_plugin_from_scores returns plugin p
\* exactly when p's detect score is > 0 and strictly greater than every other
\* plugin's score; it returns None when no plugin is registered, when the top
\* score is <= 0, or when the top score is shared.
C1_SelectionIsStrictTop ==
    sel_pc = "picked" =>
        /\ picked \in {Some(p) : p \in DOMAIN detect_scores} \cup {None}
        /\ \A p \in DOMAIN detect_scores : (picked = Some(p)) <=> StrictTop(p)
        /\ (picked = None) <=> ~ \E p \in DOMAIN detect_scores : StrictTop(p)

\* C1 witness: three plugins, the positive top score shared by two of them,
\* and the selection answered None.
C1_Witness ==
    /\ sel_pc = "picked"
    /\ Len(detect_scores) >= 3
    /\ picked = None
    /\ \E p, q \in DOMAIN detect_scores :
          /\ p # q
          /\ detect_scores[p] > 0
          /\ detect_scores[p] = detect_scores[q]
          /\ \A r \in DOMAIN detect_scores : detect_scores[r] <= detect_scores[p]

\* The plugin picked is in a pair whose score is > 0 and strictly greater
\* than the score of every other pair of the list.
PickedIsStrictTop ==
    \A i \in DOMAIN scores :
        picked = Some(scores[i].plugin) =>
           /\ scores[i].score > 0
           /\ \A j \in DOMAIN scores : j # i => scores[i].score > scores[j].score

\* The list is in descending order of score, as score_plugins returns it
SortedByScoreDesc ==
    \A i, j \in DOMAIN scores : i < j => scores[i].score >= scores[j].score

\* C24 as stated: for every list of (score, plugin) pairs in any order, a
\* plugin returned by pick_plugin_from_scores has a score > 0 and strictly
\* greater than the score of every other pair.
C24_AnyOrder == (sel_pc = "picked" /\ picked # None) => PickedIsStrictTop

\* C24 amended: for every list of (score, plugin) pairs in descending order
\* of score, a plugin returned by pick_plugin_from_scores has a score > 0
\* and strictly greater than the score of every other pair.
C24_DescendingOrder ==
    (sel_pc = "picked" /\ picked # None /\ SortedByScoreDesc) => PickedIsStrictTop

\* A plugin was picked from a sorted list of three pairs in which the two
\* lower scores are equal.
C24_PickedFromSortedList ==
    /\ sel_pc = "picked"
    /\ picked # None
    /\ detect_scores = <<>>
    /\ SortedByScoreDesc
    /\ Len(scores) = MaxPlugins
    /\ scores[2].score = scores[3].score

(***************************************************************************)
(* Percentage repair of the record assembler                               *)
(* (plugins/fordpass.py, extract_record_from_text, lines 322-358)          *)
(***************************************************************************)

\* A percentage is the text PERCENT_PATTERN captured: a sequence of 1 to 3
\* decimal digits, or the empty string when nothing was found.
RECURSIVE IntOf(_)
\* int(text) of a digit string
IntOf(digits) ==
    IF digits = <<>> THEN 0
    ELSE 10 * IntOf(SubSeq(digits, 1, Len(digits) - 1)) + digits[Len(digits)]

RECURSIVE StrOf(_)
\* str(n) of an integer n >= 0: no leading zeros
StrOf(n) ==
    IF n < 10 THEN <<n>> ELSE StrOf(n \div 10) \o <<n % 10>>

Abs(n) == IF n < 0 THEN 0 - n ELSE n

\* The mutant of Corrections: +90 and -90 are tried as well.
CorrectionsWith90 ==
    <<60, 70, 80, 90, -60, -70, -80, -90, 30, 40, 50, -30, -40, -50>>

\* The offsets tried, in the order of the for loop.
Corrections ==
    <<60, 70, 80, -60, -70, -80, 30, 40, 50, -30, -40, -50>>

\* The mutant of RepairEnd: the corrected value is not kept within [0, 100].
RepairEndNoRange(start, end, charge) ==
    IF start # <<>> /\ end # <<>> /\ charge # <<>>
    THEN LET expected_end == IntOf(start) + IntOf(charge)
             hits == {i \in DOMAIN Corrections :
                        IntOf(end) + Corrections[i] = expected_end}
         IN  IF Abs(expected_end - IntOf(end)) >= 10 /\ hits # {}
             THEN StrOf(expected_end)
             ELSE end
    ELSE end

\* Lines 323-342: end_pct after the repair. The loop stops at the first
\* correction whose corrected_end equals expected_end and lies in [0, 100].
RepairEnd(start, end, charge) ==
    IF start # <<>> /\ end # <<>> /\ charge # <<>>
    THEN LET start_val == IntOf(start)
             end_val == IntOf(end)
             charge_val == IntOf(charge)
             expected_end == start_val + charge_val
             hits == {i \in DOMAIN Corrections :
                        /\ end_val + Corrections[i] = expected_end
                        /\ 0 <= end_val + Corrections[i]
                        /\ end_val + Corrections[i] <= 100}
             first == CHOOSE i \in hits : \A j \in hits : i <= j
         IN  IF Abs(expected_end - end_val) >= 10 /\ hits # {}
             THEN StrOf(end_val + Corrections[first])
             ELSE end
    ELSE end

\* The extracted percentages the model draws: every value 0..MaxPct as str()
\* writes it, the one-digit values also with a leading zero (as "07%" reads),
\* and the empty string.
PctStrings ==
    {<<>>} \cup {StrOf(n) : n \in 0..MaxPct}
           \cup {<<0>> \o StrOf(n) : n \in {m \in 0..MaxPct : m < 10}}

RepIdle ==
    /\ start_pct = <<>>
    /\ end_pct = <<>>
    /\ charge_pct = <<>>
    /\ record_pcts = <<>>
    /\ rep_pc = "idle"

RepStart ==
    /\ start_pct \in PctStrings
    /\ end_pct \in PctStrings
    /\ charge_pct \in PctStrings
    /\ record_pcts = <<>>
    /\ rep_pc = "extracted"

\* extract_record_from_text, lines 322-358: the repair and the three
\* percentage fields of the record.
AssembleRecordPcts ==
    /\ rep_pc = "extracted"
    /\ record_pcts' = [start_percentage |-> start_pct,
                       end_percentage |-> RepairEnd(start_pct, end_pct, charge_pct),
                       charge_percentage |-> charge_pct]
    /\ rep_pc' = "assembled"
    /\ UNCHANGED <<start_pct, end_pct, charge_pct, selVars, ledVars, wrVars, mainVars, parseVars, laterVars>>

\* The offsets the spec names: +/-30, 40, 50, 60, 70, 80.
Offsets == {30, 40, 50, 60, 70, 80, -30, -40, -50, -60, -70, -80}

AllPresent == start_pct # <<>> /\ end_pct # <<>> /\ charge_pct # <<>>

\* C2 as stated: with start 71, end 10 and charge 29 extracted, the assembled
\* end_percentage is 100.
C2_Original ==
    (/\ rep_pc = "assembled"
     /\ start_pct = <<7, 1>> /\ end_pct = <<1, 0>> /\ charge_pct = <<2, 9>>)
        => record_pcts.end_percentage = <<1, 0, 0>>

\* C2 amended: with start 71, end 10 and charge 29 extracted, the assembled
\* end_percentage stays 10 (the difference, 90, is not an offset that is
\* tried); with end extracted as 30 the +70 correction gives 100.
C2_RepairExample ==
    rep_pc = "assembled" /\ start_pct = <<7, 1>> /\ charge_pct = <<2, 9>> =>
        /\ end_pct = <<1, 0>> => record_pcts.end_percentage = <<1, 0>>
        /\ end_pct = <<3, 0>> => record_pcts.end_percentage = <<1, 0, 0>>

\* C2 witness: the record was assembled from start 71, end 10, charge 29.
C2_Witness ==
    /\ rep_pc = "assembled"
    /\ start_pct = <<7, 1>> /\ end_pct = <<1, 0>> /\ charge_pct = <<2, 9>>

\* C3: with start, end and charge all present, end_percentage becomes
\* start+charge exactly when |start+charge - end| >= 10, start+charge is in
\* [0, 100] and start+charge - end is one of the offsets; in every other case
\* it is left as extracted; start_percentage and charge_percentage are never
\* changed.
C3_RepairRule ==
    rep_pc = "assembled" =>
        /\ record_pcts.start_percentage = start_pct
        /\ record_pcts.charge_percentage = charge_pct
        /\ AllPresent =>
              LET expected == IntOf(start_pct) + IntOf(charge_pct)
                  repaired ==
                      /\ Abs(expected - IntOf(end_pct)) >= 10
                      /\ expected >= 0 /\ expected <= 100
                      /\ (expected - IntOf(end_pct)) \in Offsets
              IN  IF repaired
                  THEN record_pcts.end_percentage = StrOf(expected)
                  ELSE record_pcts.end_percentage = end_pct

\* C3 witness: a repair took place (79 read as 19: 60 + 19, end 19 -> 79),
\* and a difference that is an offset was left alone because the sum
\* exceeds 100 is covered by the same specification.
C3_Witness ==
    /\ rep_pc = "assembled"
    /\ AllPresent
    /\ record_pcts.end_percentage # end_pct
    /\ IntOf(record_pcts.end_percentage) = IntOf(start_pct) + IntOf(charge_pct)

(***************************************************************************)
(* The ledger: load_existing_rows, row_sort_key, write_csv                 *)
(* (charge_parser.py, lines 358-367 and 463-525)                           *)
(***************************************************************************)

\* A row is a dict; the model keeps the columns the writer reads (the dedup
\* key and the sort key) and whether the dict has a key that is not in
\* CSV_COLUMNS (the test's rows carry "duration_minutes").
Row(date, location, time, name, extra) ==
    [date |-> date, charger_location |-> location, start_time |-> time,
     charger_name |-> name, extra_key |-> extra]

\* The rows the model hands to write_csv: two rows of one key, a later date
\* with no time, an empty date, an unparseable date, and a row with an
\* extra key whose time is unparseable.
RowPool ==
    { Row("2025-12-16", "Location A", "12:00", "Shell Recharge", FALSE),
      Row("2025-12-16", "Location A", "12:00", "EVgo", FALSE),
      Row("2026-01-01", "Location B", "", "Shell Recharge", FALSE),
      Row("", "location a", "", "Shell Recharge", FALSE),
      Row("n/a", "Location B ", "09:00", "ChargePoint", FALSE),
      Row("2026-01-01", "location b", "25:61", "ChargePoint", TRUE) }

\* str.strip() on the strings of RowPool
Strip(s) == IF s = "Location B " THEN "Location B" ELSE s

\* str.lower() on the strings of RowPool
Lower(s) ==
    CASE s = "Location A" -> "location a"
      [] s = "Location B" -> "location b"
      [] s = "Shell Recharge" -> "shell recharge"
      [] s = "EVgo" -> "evgo"
      [] s = "ChargePoint" -> "chargepoint"
      [] OTHER -> s

\* Python's order of the lower-cased strings of RowPool (by code point).
StringOrder ==
    <<"", "chargepoint", "evgo", "location a", "location b", "shell recharge">>

Rank(s) == CHOOSE i \in DOMAIN StringOrder : StringOrder[i] = s

\* datetime.strptime(date_str, "%Y-%m-%d").toordinal() on the dates of
\* RowPool; None when strptime raises ValueError.
ParseDate(date_str) ==
    CASE date_str = "2025-12-16" -> Some(739601)
      [] date_str = "2026-01-01" -> Some(739617)
      [] OTHER -> None

\* The minute of the day strptime reads with "%H:%M" (the other three
\* formats read none of the times of RowPool); None when every format raises.
ParseTime(time_str) ==
    CASE time_str = "12:00" -> Some(720)
      [] time_str = "09:00" -> Some(540)
      [] OTHER -> None

\* _parse_row_datetime: <<day, minute>>, or None
parse_row_datetime(date_str, time_str) ==
    IF date_str = "" THEN None
    ELSE IF time_str # "" /\ ParseDate(date_str) # None /\ ParseTime(time_str) # None
         THEN Some(<<ParseDate(date_str)[1], ParseTime(time_str)[1]>>)
    ELSE IF ParseDate(date_str) # None
         THEN Some(<<ParseDate(date_str)[1], 0>>)
    ELSE None

\* datetime.max: 9999-12-31 23:59:59.999999, later than any parsed value
DatetimeMax == <<3652059, 1440>>

\* The mutant of row_sort_key: a row with no datetime gets the earliest one.
row_sort_key_unknown_first(row) ==
    LET dt_value == parse_row_datetime(Strip(row.date), Strip(row.start_time))
        dt == IF dt_value = None THEN <<0, 0>> ELSE dt_value[1]
    IN  <<dt[1], dt[2], Rank(Lower(Strip(row.charger_location))),
          Rank(Lower(Strip(row.charger_name)))>>

\* row_sort_key: (dt_value, location, name), flattened to four integers
row_sort_key(row) ==
    LET dt_value == parse_row_datetime(Strip(row.date), Strip(row.start_time))
        dt == IF dt_value = None THEN DatetimeMax ELSE dt_value[1]
    IN  <<dt[1], dt[2], Rank(Lower(Strip(row.charger_location))),
          Rank(Lower(Strip(row.charger_name)))>>

\* The key of every row the model handles, computed once.
StoredRows == {[r EXCEPT !.extra_key = FALSE] : r \in RowPool}
SortKey == [r \in RowPool \cup StoredRows |-> row_sort_key(r)]

\* Python's tuple order: a < b
RECURSIVE TupleLess(_, _)
TupleLess(a, b) ==
    IF a = <<>> \/ b = <<>> THEN a = <<>> /\ b # <<>>
    ELSE IF Head(a) # Head(b) THEN Head(a) < Head(b)
    ELSE TupleLess(Tail(a), Tail(b))

\* combined.sort(key=row_sort_key) is stable: a row is placed after every
\* row of the sorted prefix whose key is not greater than its own.
RECURSIVE InsertByKey(_, _)
InsertByKey(sorted, row) ==
    IF sorted = <<>> THEN <<row>>
    ELSE IF TupleLess(SortKey[row], SortKey[Head(sorted)])
         THEN <<row>> \o sorted
         ELSE <<Head(sorted)>> \o InsertByKey(Tail(sorted), row)

RECURSIVE SortRows(_)
SortRows(rows) ==
    IF rows = <<>> THEN <<>>
    ELSE InsertByKey(SortRows(SubSeq(rows, 1, Len(rows) - 1)), rows[Len(rows)])

\* dedup_key (lines 496-501)
dedup_key(row) == <<row.date, row.charger_location, row.start_time>>

\* The file before it is created, and a file of no bytes.
AbsentFile == [exists |-> FALSE, header |-> FALSE, rows |-> <<>>]
EmptyFile == [exists |-> TRUE, header |-> FALSE, rows |-> <<>>]

\* load_existing_rows: no rows when the file is absent (or has no header
\* line); each row read is reduced to the CSV_COLUMNS.
load_existing_rows(file) ==
    IF ~file.exists \/ ~file.header THEN <<>>
    ELSE [i \in DOMAIN file.rows |-> [file.rows[i] EXCEPT !.extra_key = FALSE]]

\* The mutant of MergeRows: the seen_keys test is dropped.
MergeRowsNoDedup(existing_rows, rows) == existing_rows \o rows

\* Lines 503-515: existing rows are all kept; an input row is appended
\* unless its key was seen (in the existing rows or earlier in the input).
RECURSIVE MergeRows(_, _)
MergeRows(combined, rows) ==
    IF rows = <<>> THEN combined
    ELSE IF \E i \in DOMAIN combined : dedup_key(combined[i]) = dedup_key(Head(rows))
         THEN MergeRows(combined, Tail(rows))
         ELSE MergeRows(Append(combined, Head(rows)), Tail(rows))

\* Lines 519-523: DictWriter.writerow raises ValueError on a dict with a key
\* outside fieldnames; the rows before it have been written, and a written
\* row holds the CSV_COLUMNS only.
WrittenRows(combined) ==
    LET bad == {i \in DOMAIN combined : combined[i].extra_key}
        n == IF bad = {} THEN Len(combined)
             ELSE (CHOOSE i \in bad : \A j \in bad : i <= j) - 1
    IN  [i \in 1..n |-> combined[i]]

\* write_csv as one call: the file it leaves and how it ends.
write_csv(file, rows, append) ==
    LET existing_rows == IF append THEN load_existing_rows(file) ELSE <<>>
        merged == MergeRows(existing_rows, rows)
        combined == SortRows(merged)
        raised == \E i \in DOMAIN combined : combined[i].extra_key
    IN  [file |-> [exists |-> TRUE, header |-> TRUE, rows |-> WrittenRows(combined)],
         combined |-> combined,
         result |-> [called |-> TRUE, raised |-> raised,
                     added |-> IF raised THEN 0 ELSE Len(merged) - Len(existing_rows)]]

RowSeqs(n) == UNION {[1..k -> RowPool] : k \in 0..n}

LedIdle ==
    /\ ledger = AbsentFile
    /\ call_rows = <<>>
    /\ call_append = FALSE
    /\ call_result = [called |-> FALSE, raised |-> FALSE, added |-> 0]

LedStart ==
    /\ ledger \in {AbsentFile, EmptyFile}
    /\ call_rows = <<>>
    /\ call_append = FALSE
    /\ call_result = [called |-> FALSE, raised |-> FALSE, added |-> 0]

\* One call write_csv(output_path, rows, append).
WriteCsv ==
    \E rows \in RowSeqs(MaxRows), append \in BOOLEAN :
        LET out == write_csv(ledger, rows, append)
        IN  /\ Len(out.combined) <= MaxLedger
            /\ ledger' = out.file
            /\ call_rows' = rows
            /\ call_append' = append
            /\ call_result' = out.result
            /\ UNCHANGED <<selVars, repVars, wrVars, mainVars, parseVars, laterVars>>

Keys(rows) == {dedup_key(rows[i]) : i \in DOMAIN rows}

\* C4: no two rows of the ledger share the (date, charger_location,
\* start_time) key, after any sequence of write_csv calls.
C4_LedgerKeysDistinct ==
    \A i, j \in DOMAIN ledger.rows :
        i # j => dedup_key(ledger.rows[i]) # dedup_key(ledger.rows[j])

\* C4 witness: a call was handed a row whose key the ledger already held (or
\* held twice in its input) and the ledger holds that key once.
C4_Witness ==
    /\ call_result.called /\ ~call_result.raised
    /\ call_result.added < Len(call_rows)
    /\ Len(ledger.rows) >= 2
    /\ \E i \in DOMAIN call_rows : dedup_key(call_rows[i]) \in Keys(ledger.rows)

\* The number of input rows whose key is neither in the ledger nor earlier
\* in the same input.
CountNew(stored, rows) ==
    Cardinality({i \in DOMAIN rows :
                    /\ dedup_key(rows[i]) \notin Keys(stored)
                    /\ \A j \in 1..(i - 1) : dedup_key(rows[j]) # dedup_key(rows[i])})

\* C5: every write_csv(append=True) call returns the number of input rows
\* whose key was neither in the ledger nor earlier in the input, and a call
\* with the same rows as the call before it returns 0 and leaves the
\* ledger's rows and their order as they were.
C5_AppendIdempotent ==
    [][call_append' =>
          /\ ~call_result'.raised
          /\ call_result'.added = CountNew(ledger.rows, call_rows')
          /\ (call_result.called /\ call_rows' = call_rows) =>
                (call_result'.added = 0 /\ ledger' = ledger)]_vars

\* The (lower-cased location, lower-cased name) part of the order.
PlaceKey(row) ==
    <<Rank(Lower(Strip(row.charger_location))), Rank(Lower(Strip(row.charger_name)))>>

Dated(row) == ParseDate(Strip(row.date)) # None

\* The datetime parsed from date and start_time (the date alone when the
\* time is empty or does not parse), followed by location and name.
DatedKey(row) ==
    LET day == ParseDate(Strip(row.date))[1]
        minute == IF ParseTime(Strip(row.start_time)) = None THEN 0
                  ELSE ParseTime(Strip(row.start_time))[1]
    IN  <<day, minute>> \o PlaceKey(row)

\* C6: after every write_csv call the ledger rows are in ascending order of
\* (datetime parsed from date and start_time, lower-cased location,
\* lower-cased name), and every row whose date is empty or unparseable comes
\* after every row with a parseable date (such rows in ascending order of
\* location and name).
C6_LedgerSorted ==
    \A i, j \in DOMAIN ledger.rows :
        i < j =>
            LET a == ledger.rows[i]
                b == ledger.rows[j]
            IN  /\ ~(~Dated(a) /\ Dated(b))
                /\ (Dated(a) /\ Dated(b)) => ~TupleLess(DatedKey(b), DatedKey(a))
                /\ (~Dated(a) /\ ~Dated(b)) => ~TupleLess(PlaceKey(b), PlaceKey(a))

\* C6 witness: an append call was handed an empty-date row ahead of a dated
\* row, and the ledger holds the two with a third row between or before.
C6_Witness ==
    /\ call_result.called /\ ~call_result.raised /\ call_append
    /\ call_result.added = 2
    /\ Len(call_rows) = 2
    /\ ~Dated(call_rows[1]) /\ Dated(call_rows[2])
    /\ Len(ledger.rows) >= 3
    /\ \E i, j \in DOMAIN ledger.rows :
          /\ i < j
          /\ ledger.rows[i] = call_rows[2]
          /\ ledger.rows[j] = call_rows[1]

(***************************************************************************)
(* write_csv step by step: two calls on one ledger                         *)
(* (charge_parser.py, lines 490-525)                                       *)
(*                                                                         *)
(* The rows of a bounded ledger fit the handle's buffer: what a call       *)
(* writes reaches the file when its handle is closed, at the handle's own  *)
(* offset 0. Rows are taken to be of one length, so a shorter content      *)
(* written over a longer one leaves the longer one's last rows.            *)
(***************************************************************************)

Writers == {1, 2}

NoBuffer == [header |-> FALSE, rows |-> <<>>]

\* The ledgers that calls made one after the other can leave behind.
PriorLedgers ==
    {AbsentFile} \cup {write_csv(AbsentFile, rows, FALSE).file : rows \in RowSeqs(MaxPrior)}

\* Closing a handle writes its buffer over the start of the file.
Overlay(file, buf) ==
    [exists |-> TRUE,
     header |-> buf.header \/ file.header,
     rows |-> buf.rows \o SubSeq(file.rows, Len(buf.rows) + 1, Len(file.rows))]

\* The complete table a call is about to write.
NewFile(w) ==
    [exists |-> TRUE, header |-> TRUE,
     rows |-> [i \in DOMAIN w_combined[w] |-> [w_combined[w][i] EXCEPT !.extra_key = FALSE]]]

WrIdle ==
    /\ prior = AbsentFile
    /\ w_pc = [w \in Writers |-> "off"]
    /\ w_rows = [w \in Writers |-> <<>>]
    /\ w_append = [w \in Writers |-> FALSE]
    /\ w_old = [w \in Writers |-> AbsentFile]
    /\ w_combined = [w \in Writers |-> <<>>]
    /\ w_added = [w \in Writers |-> 0]
    /\ w_buf = [w \in Writers |-> NoBuffer]

WrStart ==
    /\ ledger \in PriorLedgers
    /\ prior = ledger
    /\ w_pc = [w \in Writers |-> "idle"]
    /\ w_rows = [w \in Writers |-> <<>>]
    /\ w_append = [w \in Writers |-> FALSE]
    /\ w_old = [w \in Writers |-> AbsentFile]
    /\ w_combined = [w \in Writers |-> <<>>]
    /\ w_added = [w \in Writers |-> 0]
    /\ w_buf = [w \in Writers |-> NoBuffer]
    /\ call_rows = <<>>
    /\ call_append = FALSE
    /\ call_result = [called |-> FALSE, raised |-> FALSE, added |-> 0]

wrOthers == <<selVars, repVars, call_rows, call_append, call_result, prior, mainVars, parseVars, laterVars>>

\* Lines 492-517: the call begins, reads the existing rows, merges and sorts.
Load(w) ==
    /\ w_pc[w] = "idle"
    /\ \E rows \in RowSeqs(MaxWriterRows), append \in BOOLEAN :
          LET existing_rows == IF append THEN load_existing_rows(ledger) ELSE <<>>
              merged == MergeRows(existing_rows, rows)
          IN  /\ w_rows' = [w_rows EXCEPT ![w] = rows]
              /\ w_append' = [w_append EXCEPT ![w] = append]
              /\ w_old' = [w_old EXCEPT ![w] = ledger]
              /\ w_combined' = [w_combined EXCEPT ![w] = SortRows(merged)]
              /\ w_added' = [w_added EXCEPT ![w] = Len(merged) - Len(existing_rows)]
    /\ w_pc' = [w_pc EXCEPT ![w] = "merged"]
    /\ UNCHANGED <<ledger, w_buf, wrOthers>>

\* Line 519: output_path.open("w") creates or truncates the file.
Open(w) ==
    /\ w_pc[w] = "merged"
    /\ ledger' = EmptyFile
    /\ w_buf' = [w_buf EXCEPT ![w] = NoBuffer]
    /\ w_pc' = [w_pc EXCEPT ![w] = "opened"]
    /\ UNCHANGED <<w_rows, w_append, w_old, w_combined, w_added, wrOthers>>

\* Line 521: writer.writeheader()
WriteHeader(w) ==
    /\ w_pc[w] = "opened"
    /\ w_buf' = [w_buf EXCEPT ![w].header = TRUE]
    /\ w_pc' = [w_pc EXCEPT ![w] = "writing"]
    /\ UNCHANGED <<ledger, w_rows, w_append, w_old, w_combined, w_added, wrOthers>>

\* The row the loop of lines 522-523 writes next; 0 when none is left.
NextRow(w) ==
    IF Len(w_buf[w].rows) < Len(w_combined[w]) THEN Len(w_buf[w].rows) + 1 ELSE 0

\* Line 523: writer.writerow(row), for a row of CSV_COLUMNS keys
WriteRow(w) ==
    /\ w_pc[w] = "writing"
    /\ NextRow(w) # 0
    /\ ~w_combined[w][NextRow(w)].extra_key
    /\ w_buf' = [w_buf EXCEPT ![w].rows = Append(@, w_combined[w][NextRow(w)])]
    /\ UNCHANGED <<ledger, w_pc, w_rows, w_append, w_old, w_combined, w_added, wrOthers>>

\* Line 523: writer.writerow(row) raises ValueError for a row with a key
\* outside CSV_COLUMNS; leaving the with block closes the handle.
WriteRowRaises(w) ==
    /\ w_pc[w] = "writing"
    /\ NextRow(w) # 0
    /\ w_combined[w][NextRow(w)].extra_key
    /\ ledger' = Overlay(ledger, w_buf[w])
    /\ w_buf' = [w_buf EXCEPT ![w] = NoBuffer]
    /\ w_pc' = [w_pc EXCEPT ![w] = "raised"]
    /\ UNCHANGED <<w_rows, w_append, w_old, w_combined, w_added, wrOthers>>

\* Lines 519-525: the with block ends, the handle is closed, added returned.
Close(w) ==
    /\ w_pc[w] = "writing"
    /\ NextRow(w) = 0
    /\ ledger' = Overlay(ledger, w_buf[w])
    /\ w_buf' = [w_buf EXCEPT ![w] = NoBuffer]
    /\ w_pc' = [w_pc EXCEPT ![w] = "returned"]
    /\ UNCHANGED <<w_rows, w_append, w_old, w_combined, w_added, wrOthers>>

\* The process running the call is killed: what its handle holds is lost.
Kill(w) ==
    /\ w_pc[w] \in {"merged", "opened", "writing"}
    /\ w_buf' = [w_buf EXCEPT ![w] = NoBuffer]
    /\ w_pc' = [w_pc EXCEPT ![w] = "killed"]
    /\ UNCHANGED <<ledger, w_rows, w_append, w_old, w_combined, w_added, wrOthers>>

\* C7: at every point of a write_csv call, also one that fails or is
\* interrupted, the ledger is the complete old content or the complete new
\* content (stated for a call that runs alone).
C7_AtomicReplace ==
    \A w \in Writers :
        (/\ w_pc[w] \in {"merged", "opened", "writing", "returned", "raised", "killed"}
         /\ \A v \in Writers \ {w} : w_pc[v] = "idle")
            => ledger \in {w_old[w], NewFile(w)}

\* C8: when two write_csv(append=True) calls with rows of distinct dedup keys
\* have both returned, the ledger holds the rows of both calls and all prior
\* rows, with no key twice and in sorted order.
C8_WritersSerialized ==
    (/\ \A w \in Writers : w_pc[w] = "returned" /\ w_append[w]
     /\ Keys(w_rows[1]) \cap Keys(w_rows[2]) = {}
     /\ Keys(prior.rows) \cap (Keys(w_rows[1]) \cup Keys(w_rows[2])) = {})
        => /\ \A r \in {prior.rows[i] : i \in DOMAIN prior.rows}
                    \cup {w_rows[1][i] : i \in DOMAIN w_rows[1]}
                    \cup {w_rows[2][i] : i \in DOMAIN w_rows[2]} :
                 \E i \in DOMAIN ledger.rows : ledger.rows[i] = r
           /\ C4_LedgerKeysDistinct
           /\ C6_LedgerSorted

(***************************************************************************)
(* main: a batch run over several images                                   *)
(* (charge_parser.py, lines 568-594; run_tesseract, lines 82-97)           *)
(***************************************************************************)

\* What run_tesseract does with an image: it returns the text, or raises
\* RuntimeError because the binary is missing or exited non-zero.
OcrOutcomes == {"text", "FileNotFoundError", "CalledProcessError"}

\* An image: what OCR does with it and the row plugin.parse makes of its
\* text (a dict of the CSV_COLUMNS keys, built at lines 302-317).
Images == [ocr : OcrOutcomes, row : {r \in RowPool : ~r.extra_key}]

ImageSeqs == UNION {[1..n -> Images] : n \in 0..MaxImages}

\* --plugin: not given, the name of a plugin, or a name no plugin has
PluginNames == {"", "fordpass", "unknown"}

MainIdle ==
    /\ m_args = [text_only |-> FALSE, append |-> FALSE, plugin_name |-> ""]
    /\ m_images = <<>>
    /\ m_pc = "off"
    /\ m_idx = 0
    /\ m_rows = <<>>
    /\ m_error = None

MainStart ==
    /\ m_args \in [text_only : BOOLEAN, append : BOOLEAN, plugin_name : PluginNames]
    /\ m_images \in ImageSeqs
    /\ m_pc = "start"
    /\ m_idx = 0
    /\ m_rows = <<>>
    /\ m_error = None
    /\ ledger \in PriorLedgers
    /\ call_rows = <<>>
    /\ call_append = FALSE
    /\ call_result = [called |-> FALSE, raised |-> FALSE, added |-> 0]

mainOthers == <<selVars, repVars, wrVars, call_rows, call_append, call_result, parseVars, laterVars>>

\* Lines 569-580: no image and not --text-only, or an unknown --plugin,
\* ends main with SystemExit.
MainSetupExits ==
    /\ m_pc = "start"
    /\ \/ /\ m_images = <<>> /\ ~m_args.text_only
          /\ m_error' = Some("No images found in the provided paths.")
       \/ /\ ~(m_images = <<>> /\ ~m_args.text_only)
          /\ m_args.plugin_name = "unknown"
          /\ m_error' = Some("Unknown plugin")
    /\ m_pc' = "exit"
    /\ UNCHANGED <<m_args, m_images, m_idx, m_rows, ledger, mainOthers>>

\* Lines 569-581: the setup passes and the for loop begins.
MainSetup ==
    /\ m_pc = "start"
    /\ ~(m_images = <<>> /\ ~m_args.text_only)
    /\ m_args.plugin_name # "unknown"
    /\ m_idx' = 1
    /\ m_pc' = "ocr"
    /\ UNCHANGED <<m_args, m_images, m_rows, m_error, ledger, mainOthers>>

\* Line 582, run_tesseract returns the text; lines 583-585 print it and go
\* on to the next image under --text-only.
RunTesseract ==
    /\ m_pc = "ocr"
    /\ m_idx <= Len(m_images)
    /\ m_images[m_idx].ocr = "text"
    /\ IF m_args.text_only
       THEN m_idx' = m_idx + 1 /\ m_pc' = "ocr"
       ELSE m_idx' = m_idx /\ m_pc' = "resolve"
    /\ UNCHANGED <<m_args, m_images, m_rows, m_error, ledger, mainOthers>>

\* Line 582, run_tesseract raises RuntimeError (lines 91-96): nothing in
\* main catches it, so main ends with that exception.
RunTesseractRaises ==
    /\ m_pc = "ocr"
    /\ m_idx <= Len(m_images)
    /\ m_images[m_idx].ocr # "text"
    /\ m_error' = Some(IF m_images[m_idx].ocr = "FileNotFoundError"
                       THEN "RuntimeError: tesseract binary not found"
                       ELSE "RuntimeError: OCR failed")
    /\ m_pc' = "raised"
    /\ UNCHANGED <<m_args, m_images, m_idx, m_rows, ledger, mainOthers>>

\* Lines 586-587: the forced plugin, or the one resolve_plugin_for_text
\* picks from the scores, parses the text; without a confident pick
\* resolve_plugin_for_text asks the user.
ResolvePlugin ==
    /\ m_pc = "resolve"
    /\ \/ /\ m_args.plugin_name = "fordpass" 
          /\ m_rows' = Append(m_rows, m_images[m_idx].row)
          /\ m_idx' = m_idx + 1
          /\ m_pc' = "ocr"
       \/ /\ m_args.plugin_name = ""
          /\ \E detect \in 0..MaxScore :
                IF pick_plugin_from_scores(score_plugins(<<detect>>)) # None
                THEN /\ m_rows' = Append(m_rows, m_images[m_idx].row)
                     /\ m_idx' = m_idx + 1
                     /\ m_pc' = "ocr"
                ELSE /\ m_pc' = "prompt"
                     /\ UNCHANGED <<m_rows, m_idx>>
    /\ UNCHANGED <<m_args, m_images, m_error, ledger, mainOthers>>

\* prompt_user_for_plugin (lines 437-450) returns the plugin the user
\* chooses, and line 587 parses the text with it.
PromptUser ==
    /\ m_pc = "prompt"
    /\ m_rows' = Append(m_rows, m_images[m_idx].row)
    /\ m_idx' = m_idx + 1
    /\ m_pc' = "ocr"
    /\ UNCHANGED <<m_args, m_images, m_error, ledger, mainOthers>>

\* Lines 589-590: after the loop, --text-only returns.
MainReturnsTextOnly ==
    /\ m_pc = "ocr"
    /\ m_idx > Len(m_images)
    /\ m_args.text_only
    /\ m_pc' = "returned"
    /\ UNCHANGED <<m_args, m_images, m_idx, m_rows, m_error, ledger, mainOthers>>

\* Lines 591-594: after the loop the rows are written with write_csv.
MainWrites ==
    /\ m_pc = "ocr"
    /\ m_idx > Len(m_images)
    /\ ~m_args.text_only
    /\ m_rows # <<>>
    /\ ledger' = write_csv(ledger, m_rows, m_args.append).file
    /\ m_pc' = "returned"
    /\ UNCHANGED <<m_args, m_images, m_idx, m_rows, m_error, mainOthers>>

\* C9: in a batch run, an OCR failure on one image aborts that image only:
\* when main has ended, every image that OCR could read has its row in the
\* ledger, and the cause of a failure was surfaced.
C9_OcrFailureSkipsOneImage ==
    (m_pc \in {"returned", "raised"} /\ ~m_args.text_only) =>
        /\ \A i \in DOMAIN m_images :
              m_images[i].ocr = "text" => dedup_key(m_images[i].row) \in Keys(ledger.rows)
        /\ (\E i \in DOMAIN m_images : m_images[i].ocr # "text") => m_error # None

(***************************************************************************)
(* FordPassPlugin.parse: OCR text to record                                *)
(* (plugins/fordpass.py, lines 235-359; charge_parser.py, lines 242-318)   *)
(***************************************************************************)

\* A line of OCR text, after strip(), is held with what the patterns and
\* the string tests of the two modules find in it:
\*   direct      the SECTION_BREAKS label lowered.rstrip(":") is
\*   equals      the SECTION_BREAKS label the lowered line is
\*   begins      the label l with lowered.startswith(l + " ")
\*   rest        clean[len(label):].strip().lstrip(":").strip() for begins
\*   rest_kept   rest starts with a digit or one of "+-($"
\*   label       the label a reader finds at the start of the line: the
\*               longest label the lowered line is, or starts with before
\*               a space or a colon
\*   remainder   what follows that label and a colon, trimmed
\*   remainder_kept   remainder starts with a digit or one of "+-($"
\*   contains    which of "summary", "charge details", "additional details"
\*               are substrings of the lowered line
\*   pct, kwh, kw, cost   group of PERCENT_, KWH_, KW_, COST_PATTERN.search
\*   miles       group 1 of \((?:\+)?(\d+)\s*mi\)
\*   time        TIME_PATTERN of plugins/fordpass.py, "." replaced by ":"
\*   time_colon  TIME_PATTERN of charge_parser.py
\*   time_only   the time match is the whole line
\*   has_date, date   DATE_PATTERN.search and parse_date_to_iso of the match
\*   lead        "start" or "end" when the lowered line starts with it
\*   hr, min     group 1 of (\d+)\s*hr and of (\d+)\s*min, ignoring case
\*   brand       extract_brand(line)
\* A number the code converts with int() or str() is held as its digits;
\* every other value as a string.
BlankLine ==
    [text |-> "",
     direct |-> "",
     equals |-> "",
     begins |-> "",
     rest |-> "",
     rest_kept |-> FALSE,
     label |-> "",
     remainder |-> "",
     remainder_kept |-> FALSE,
     contains |-> {},
     pct |-> <<>>,
     miles |-> "",
     kwh |-> "",
     kw |-> "",
     cost |-> "",
     time |-> "",
     time_colon |-> "",
     time_only |-> FALSE,
     has_date |-> FALSE,
     date |-> "",
     lead |-> "",
     hr |-> <<>>,
     min |-> <<>>,
     brand |-> ""]

\* The lines the model writes texts with.
LinePool == {
    BlankLine,
    [BlankLine EXCEPT !.text = "Summary", !.direct = "summary",
        !.equals = "summary", !.label = "summary", !.contains = {"summary"},
        !.brand = "Summary"],
    [BlankLine EXCEPT !.text = "Shell Recharge", !.brand = "Shell"],
    [BlankLine EXCEPT !.text = "Location A", !.brand = "Location"],
    [BlankLine EXCEPT !.text = "Charge details", !.direct = "charge details",
        !.equals = "charge details", !.begins = "charge", !.rest = "details",
        !.label = "charge details", !.contains = {"charge details"},
        !.brand = "Charge"],
    [BlankLine EXCEPT !.text = "Charge", !.direct = "charge",
        !.equals = "charge", !.label = "charge", !.brand = "Charge"],
    [BlankLine EXCEPT !.text = "Charge 71% (+150 mi)", !.begins = "charge",
        !.rest = "71% (+150 mi)", !.rest_kept = TRUE, !.label = "charge",
        !.remainder = "71% (+150 mi)", !.remainder_kept = TRUE,
        !.pct = <<7, 1>>, !.miles = "150", !.brand = "Charge"],
    [BlankLine EXCEPT !.text = "Time charging", !.direct = "time charging",
        !.equals = "time charging", !.label = "time charging",
        !.brand = "Time"],
    [BlankLine EXCEPT !.text = "2 hrs 50 min", !.hr = <<2>>,
        !.min = <<5, 0>>, !.brand = "2"],
    [BlankLine EXCEPT !.text = "1 hr", !.hr = <<1>>, !.brand = "1"],
    [BlankLine EXCEPT !.text = "0 min", !.min = <<0>>, !.brand = "0"],
    [BlankLine EXCEPT !.text = "Energy added 42.5 kWh",
        !.begins = "energy added", !.rest = "42.5 kWh", !.rest_kept = TRUE,
        !.label = "energy added", !.remainder = "42.5 kWh",
        !.remainder_kept = TRUE, !.kwh = "42.5", !.brand = "Energy"],
    [BlankLine EXCEPT !.text = "Additional details",
        !.direct = "additional details", !.equals = "additional details",
        !.label = "additional details", !.contains = {"additional details"},
        !.brand = "Additional"],
    [BlankLine EXCEPT !.text = "December 16, 2025 12:00", !.time = "12:00",
        !.time_colon = "12:00", !.has_date = TRUE, !.date = "2025-12-16",
        !.brand = "December"],
    [BlankLine EXCEPT !.text = "Start 29%", !.pct = <<2, 9>>,
        !.lead = "start", !.brand = "Start"],
    [BlankLine EXCEPT !.text = "End 10%", !.pct = <<1, 0>>, !.lead = "end",
        !.brand = "End"],
    [BlankLine EXCEPT !.text = "Start 25:61 71%", !.pct = <<7, 1>>,
        !.time = "25:61", !.time_colon = "25:61", !.lead = "start",
        !.brand = "Start"],
    [BlankLine EXCEPT !.text = "$12.34", !.cost = "$12.34", !.time = "12:34",
        !.brand = "$12.34"],
    [BlankLine EXCEPT !.text = "12.05", !.time = "12:05", !.time_only = TRUE,
        !.brand = "12.05"]
}

\* The lines the label lookups are checked on: a label alone, with a colon,
\* with its value on the same line, and lines without a label.
LabelPool == {
    BlankLine,
    [BlankLine EXCEPT !.text = "Charge", !.direct = "charge",
        !.equals = "charge", !.label = "charge", !.brand = "Charge"],
    [BlankLine EXCEPT !.text = "Charge:", !.direct = "charge",
        !.label = "charge", !.brand = "Charge:"],
    [BlankLine EXCEPT !.text = "Charge 71% (+150 mi)", !.begins = "charge",
        !.rest = "71% (+150 mi)", !.rest_kept = TRUE, !.label = "charge",
        !.remainder = "71% (+150 mi)", !.remainder_kept = TRUE,
        !.pct = <<7, 1>>, !.miles = "150", !.brand = "Charge"],
    [BlankLine EXCEPT !.text = "Charge: 71% (+150 mi)", !.label = "charge",
        !.remainder = "71% (+150 mi)", !.remainder_kept = TRUE,
        !.pct = <<7, 1>>, !.miles = "150", !.brand = "Charge:"],
    [BlankLine EXCEPT !.text = "Charge details", !.direct = "charge details",
        !.equals = "charge details", !.begins = "charge", !.rest = "details",
        !.label = "charge details", !.contains = {"charge details"},
        !.brand = "Charge"],
    [BlankLine EXCEPT !.text = "71% (+150 mi)", !.pct = <<7, 1>>,
        !.miles = "150", !.brand = "71%"],
    [BlankLine EXCEPT !.text = "Shell Recharge", !.brand = "Shell"],
    [BlankLine EXCEPT !.text = "Energy added", !.direct = "energy added",
        !.equals = "energy added", !.label = "energy added",
        !.brand = "Energy"],
    [BlankLine EXCEPT !.text = "Energy added 42.5 kWh",
        !.begins = "energy added", !.rest = "42.5 kWh", !.rest_kept = TRUE,
        !.label = "energy added", !.remainder = "42.5 kWh",
        !.remainder_kept = TRUE, !.kwh = "42.5", !.brand = "Energy"]
}

\* The lines the additional-details block is checked on: dates with and
\* without a time, times alone, start and end markers with and without a
\* time.
SectionPool == {
    BlankLine,
    [BlankLine EXCEPT !.text = "December 16, 2025", !.has_date = TRUE,
        !.date = "2025-12-16", !.brand = "December"],
    [BlankLine EXCEPT !.text = "December 17, 2025 12:00", !.time = "12:00",
        !.time_colon = "12:00", !.has_date = TRUE, !.date = "2025-12-17",
        !.brand = "December"],
    [BlankLine EXCEPT !.text = "12:32", !.time = "12:32",
        !.time_colon = "12:32", !.time_only = TRUE, !.brand = "12:32"],
    [BlankLine EXCEPT !.text = "9.45", !.time = "9:45", !.time_only = TRUE,
        !.brand = "9.45"],
    [BlankLine EXCEPT !.text = "Start 71%", !.pct = <<7, 1>>,
        !.lead = "start", !.brand = "Start"],
    [BlankLine EXCEPT !.text = "Start 08:15 29%", !.pct = <<2, 9>>,
        !.time = "08:15", !.time_colon = "08:15", !.lead = "start",
        !.brand = "Start"],
    [BlankLine EXCEPT !.text = "End 100%", !.pct = <<1, 0, 0>>,
        !.lead = "end", !.brand = "End"],
    [BlankLine EXCEPT !.text = "End 15:23 80%", !.pct = <<8, 0>>,
        !.time = "15:23", !.time_colon = "15:23", !.lead = "end",
        !.brand = "End"]
}

AllLines == LinePool \cup LabelPool \cup SectionPool

LineTexts == {l.text : l \in LinePool}

LineOf == [t \in {l.text : l \in AllLines} |-> CHOOSE l \in AllLines : l.text = t]

\* text.splitlines() of every text of at most MaxLines pool lines
Texts == UNION {[1..n -> LineTexts] : n \in 0..MaxLines}

SECTION_BREAKS ==
    {"summary", "charge details", "charge", "time charging", "energy added",
     "additional details"}

lower_is_section_break(t) ==
    LineOf[t].equals \in SECTION_BREAKS \/ LineOf[t].begins \in SECTION_BREAKS

\* follower_lower == target or follower_lower.startswith(f"{target} ")
StartsWithLabel(t, label) == LineOf[t].equals = label \/ LineOf[t].begins = label

\* The index of the first line the lowered text of which contains phrase,
\* or 0: next((i for i, l in enumerate(lines) if phrase in l.lower()), None)
FirstIndex(lines, phrase) ==
    LET found == {i \in DOMAIN lines : phrase \in LineOf[lines[i]].contains}
    IN  IF found = {} THEN 0 ELSE CHOOSE i \in found : \A j \in found : i <= j

\* The value found after a label on its own line: the line, with the text
\* that follows the label as its text.
InlineValue(t) == [LineOf[t] EXCEPT !.text = LineOf[t].rest]

RECURSIVE LabelValueFrom(_, _, _)
LabelValueFrom(lines, label, idx) ==
    IF idx > Len(lines) THEN BlankLine
    ELSE LET line == LineOf[lines[idx]]
             is_direct_match == line.direct = label
             kept == ~is_direct_match /\ line.begins = label /\ line.rest_kept
             followers == {j \in (idx + 1)..Len(lines) :
                             /\ lines[j] # ""
                             /\ ~StartsWithLabel(lines[j], label)}
         IN  IF line.text = "" THEN LabelValueFrom(lines, label, idx + 1)
             ELSE IF kept THEN InlineValue(lines[idx])
             ELSE IF is_direct_match /\ followers # {}
             THEN LineOf[lines[CHOOSE j \in followers : \A k \in followers : j <= k]]
             ELSE LabelValueFrom(lines, label, idx + 1)

\* extract_label_value of both modules (fordpass.py 37-64, charge_parser.py
\* 100-127): the text that goes with the label, or the empty string.
extract_label_value(lines, label) == LabelValueFrom(lines, label, 1)

RECURSIVE SectionFollowers(_, _)
SectionFollowers(lines, idx) ==
    IF idx > Len(lines) THEN <<>>
    ELSE IF lines[idx] = "" THEN SectionFollowers(lines, idx + 1)
    ELSE IF lower_is_section_break(lines[idx]) THEN <<>>
    ELSE <<LineOf[lines[idx]]>> \o SectionFollowers(lines, idx + 1)

\* extract_section (fordpass.py 87-110): the lines under a section header
\* up to the next section break.
extract_section(lines, label) ==
    LET headers == {i \in DOMAIN lines :
                      lines[i] # "" /\ StartsWithLabel(lines[i], label)}
        idx == IF headers = {} THEN 0
               ELSE CHOOSE i \in headers : \A j \in headers : i <= j
    IN  IF idx = 0 THEN <<>>
        ELSE (IF LineOf[lines[idx]].begins = label /\ LineOf[lines[idx]].rest # ""
              THEN <<InlineValue(lines[idx])>> ELSE <<>>)
             \o SectionFollowers(lines, idx + 1)

RECURSIVE SummaryLines(_, _)
\* The loop both extract_summary_info share: the lines from start_idx on,
\* blank lines and the headers "summary" and "charge details" skipped, up to
\* the first other section break.
SummaryLines(lines, idx) ==
    IF idx > Len(lines) THEN <<>>
    ELSE IF lines[idx] = "" THEN SummaryLines(lines, idx + 1)
    ELSE IF lower_is_section_break(lines[idx])
    THEN IF LineOf[lines[idx]].equals \in {"summary", "charge details"}
         THEN SummaryLines(lines, idx + 1)
         ELSE <<>>
    ELSE <<lines[idx]>> \o SummaryLines(lines, idx + 1)

RECURSIVE Join(_)
\* " ".join(words)
Join(words) ==
    IF words = <<>> THEN ""
    ELSE IF Len(words) = 1 THEN words[1]
    ELSE words[1] \o " " \o Join(Tail(words))

\* extract_summary_info of plugins/fordpass.py (240-268): the last line is
\* the location, the lines before it joined are the name.
fordpass_extract_summary_info(lines, start_idx) ==
    LET summary_lines == SummaryLines(lines, start_idx)
    IN  IF summary_lines = <<>> THEN [name |-> "", location |-> "", brand |-> ""]
        ELSE IF Len(summary_lines) >= 2
        THEN [name |-> Join(SubSeq(summary_lines, 1, Len(summary_lines) - 1)),
              location |-> summary_lines[Len(summary_lines)],
              brand |-> LineOf[summary_lines[1]].brand]
        ELSE [name |-> summary_lines[1], location |-> "",
              brand |-> LineOf[summary_lines[1]].brand]

\* extract_summary_info of charge_parser.py (246-263): the first line is the
\* name, the second the location.
extract_summary_info(lines, start_idx) ==
    LET summary_lines == SummaryLines(lines, start_idx)
    IN  [name |-> IF Len(summary_lines) >= 1 THEN summary_lines[1] ELSE "",
         location |-> IF Len(summary_lines) >= 2 THEN summary_lines[2] ELSE "",
         brand |-> IF Len(summary_lines) >= 1
                   THEN LineOf[summary_lines[1]].brand ELSE ""]

\* ChargerInfo without the second look, under "charge details"
ChargerInfoSummaryOnly(lines, module) ==
    LET summary_idx == FirstIndex(lines, "summary")
    IN  IF summary_idx = 0 THEN [name |-> "", location |-> "", brand |-> ""]
        ELSE IF module = "plugins.fordpass"
        THEN fordpass_extract_summary_info(lines, summary_idx + 1)
        ELSE extract_summary_info(lines, summary_idx + 1)

\* Lines 270-278 (fordpass.py) and 265-273 (charge_parser.py): the charger
\* under "summary", or else under "charge details". brand is
\* extract_brand(charger_name), the leading token of the name.
ChargerInfo(lines, module) ==
    LET SummaryInfo(start_idx) ==
            IF module = "plugins.fordpass"
            THEN fordpass_extract_summary_info(lines, start_idx)
            ELSE extract_summary_info(lines, start_idx)
        summary_idx == FirstIndex(lines, "summary")
        details_idx == FirstIndex(lines, "charge details")
        nothing == [name |-> "", location |-> "", brand |-> ""]
        under_summary == IF summary_idx # 0 THEN SummaryInfo(summary_idx + 1)
                         ELSE nothing
    IN  IF under_summary.name # "" THEN under_summary
        ELSE IF details_idx # 0 THEN SummaryInfo(details_idx + 1)
        ELSE under_summary

\* find_percentage: the first percentage at or after start_idx
find_percentage(lines, start_idx) ==
    LET found == {j \in start_idx..Len(lines) : LineOf[lines[j]].pct # <<>>}
    IN  IF found = {} THEN <<>>
        ELSE LineOf[lines[CHOOSE j \in found : \A k \in found : j <= k]].pct

\* What TIME_PATTERN of plugins/fordpass.py finds, "." made ":" (the field
\* time of a line), and what TIME_PATTERN of charge_parser.py finds
FordpassTime == "time"
ChargeParserTime == "time_colon"

\* find_time with the scan started at the top of the section
find_time_from_top(lines, start_idx, time_field) ==
    LET found == {j \in DOMAIN lines : LineOf[lines[j]][time_field] # ""}
    IN  IF found = {} THEN ""
        ELSE LineOf[lines[CHOOSE j \in found : \A k \in found : j <= k]][time_field]

\* find_time: the first time at or after start_idx; time_field is the
\* TIME_PATTERN of the module
find_time(lines, start_idx, time_field) ==
    LET found == {j \in start_idx..Len(lines) : LineOf[lines[j]][time_field] # ""}
    IN  IF found = {} THEN ""
        ELSE LineOf[lines[CHOOSE j \in found : \A k \in found : j <= k]][time_field]

NoDetails ==
    [start_date |-> "", end_date |-> "", start_time |-> "", end_time |-> "",
     start_pct |-> <<>>, end_pct |-> <<>>]

\* DetailsStep with the fields written on every start or end line
DetailsStepOverwrites(section, idx, at, time_field, standalone) ==
    LET line == LineOf[section[idx]]
        time_value == IF at.pending_time # "" THEN at.pending_time
                      ELSE find_time(section, idx, time_field)
        with_start ==
            [at.result EXCEPT
               !.start_date = at.current_date,
               !.start_time = time_value,
               !.start_pct = find_percentage(section, idx)]
        with_end ==
            [at.result EXCEPT
               !.end_date = at.current_date,
               !.end_time = time_value,
               !.end_pct = find_percentage(section, idx)]
    IN  IF line.text = "" THEN at
        ELSE IF line.has_date
        THEN [at EXCEPT !.current_date = line.date, !.pending_time = line[time_field]]
        ELSE IF standalone /\ line[time_field] # "" /\ line.time_only
        THEN [at EXCEPT !.pending_time = line[time_field]]
        ELSE IF line.lead = "start"
        THEN [at EXCEPT !.result = with_start, !.pending_time = ""]
        ELSE IF line.lead = "end"
        THEN [at EXCEPT !.result = with_end, !.pending_time = ""]
        ELSE at

\* DetailsStep with pending_time left as it is by a start or end line
DetailsStepKeepsPending(section, idx, at, time_field, standalone) ==
    LET line == LineOf[section[idx]]
        time_value == IF at.pending_time # "" THEN at.pending_time
                      ELSE find_time(section, idx, time_field)
        with_start ==
            [at.result EXCEPT
               !.start_date = IF @ = "" THEN at.current_date ELSE @,
               !.start_time = IF @ = "" THEN time_value ELSE @,
               !.start_pct = IF @ = <<>> THEN find_percentage(section, idx) ELSE @]
        with_end ==
            [at.result EXCEPT
               !.end_date = IF @ = "" THEN at.current_date ELSE @,
               !.end_time = IF @ = "" THEN time_value ELSE @,
               !.end_pct = IF @ = <<>> THEN find_percentage(section, idx) ELSE @]
    IN  IF line.text = "" THEN at
        ELSE IF line.has_date
        THEN [at EXCEPT !.current_date = line.date, !.pending_time = line[time_field]]
        ELSE IF standalone /\ line[time_field] # "" /\ line.time_only
        THEN [at EXCEPT !.pending_time = line[time_field]]
        ELSE IF line.lead = "start"
        THEN [at EXCEPT !.result = with_start]
        ELSE IF line.lead = "end"
        THEN [at EXCEPT !.result = with_end]
        ELSE at

\* One pass of the for loop of extract_additional_details, on line idx of
\* section: the result, current_date and pending_time after it. standalone
\* is whether a line that is only a time is taken as the pending time
\* (fordpass.py 179-184; charge_parser.py has no such rule).
DetailsStep(section, idx, at, time_field, standalone) ==
    LET line == LineOf[section[idx]]
        time_value == IF at.pending_time # "" THEN at.pending_time
                      ELSE find_time(section, idx, time_field)
        with_start ==
            [at.result EXCEPT
               !.start_date = IF @ = "" THEN at.current_date ELSE @,
               !.start_time = IF @ = "" THEN time_value ELSE @,
               !.start_pct = IF @ = <<>> THEN find_percentage(section, idx) ELSE @]
        with_end ==
            [at.result EXCEPT
               !.end_date = IF @ = "" THEN at.current_date ELSE @,
               !.end_time = IF @ = "" THEN time_value ELSE @,
               !.end_pct = IF @ = <<>> THEN find_percentage(section, idx) ELSE @]
    IN  IF line.text = "" THEN at
        ELSE IF line.has_date
        THEN [at EXCEPT !.current_date = line.date, !.pending_time = line[time_field]]
        ELSE IF standalone /\ line[time_field] # "" /\ line.time_only
        THEN [at EXCEPT !.pending_time = line[time_field]]
        ELSE IF line.lead = "start"
        THEN [at EXCEPT !.result = with_start, !.pending_time = ""]
        ELSE IF line.lead = "end"
        THEN [at EXCEPT !.result = with_end, !.pending_time = ""]
        ELSE at

RECURSIVE DetailsLoop(_, _, _, _, _)
\* The for loop of extract_additional_details over section, from idx on.
DetailsLoop(section, idx, at, time_field, standalone) ==
    IF idx > Len(section) THEN at.result
    ELSE DetailsLoop(section, idx + 1,
                     DetailsStep(section, idx, at, time_field, standalone),
                     time_field, standalone)

AdditionalDetails(lines, time_field, standalone) ==
    LET additional_idx == FirstIndex(lines, "additional details")
    IN  IF additional_idx = 0 THEN NoDetails
        ELSE DetailsLoop(SubSeq(lines, additional_idx + 1, Len(lines)), 1,
                         [result |-> NoDetails, current_date |-> "",
                          pending_time |-> ""],
                         time_field, standalone)

\* extract_additional_details of plugins/fordpass.py (139-205)
fordpass_extract_additional_details(lines) ==
    AdditionalDetails(lines, FordpassTime, TRUE)

\* extract_additional_details of charge_parser.py (174-228)
extract_additional_details(lines) ==
    AdditionalDetails(lines, ChargeParserTime, FALSE)

\* PATTERN.search(text) over the whole text: the match in the first line
\* that has one
SearchText(lines, field) ==
    LET found == {j \in DOMAIN lines : LineOf[lines[j]][field] # ""}
    IN  IF found = {} THEN ""
        ELSE LineOf[lines[CHOOSE j \in found : \A k \in found : j <= k]][field]

\* ScanBeforeDetails with the scan going on to the end of the text
ScanAllLines(lines, field, empty) ==
    LET found == {j \in DOMAIN lines : LineOf[lines[j]][field] # empty}
    IN  IF found = {} THEN empty
        ELSE LineOf[lines[CHOOSE j \in found : \A k \in found : j <= k]][field]

\* Lines 300-312 of plugins/fordpass.py: the first match in the lines before
\* "additional details" (or in all lines without it)
ScanBeforeDetails(lines, field, empty) ==
    LET additional_idx == FirstIndex(lines, "additional details")
        scan_limit == IF additional_idx # 0 THEN additional_idx - 1 ELSE Len(lines)
        found == {j \in 1..scan_limit : LineOf[lines[j]][field] # empty}
    IN  IF found = {} THEN empty
        ELSE LineOf[lines[CHOOSE j \in found : \A k \in found : j <= k]][field]

\* parse_duration_minutes (fordpass.py 219-232) of a text in which the
\* patterns find the digits hr and min
parse_duration_minutes(duration_text) ==
    LET hours == IF duration_text.hr # <<>> THEN IntOf(duration_text.hr) ELSE 0
        minutes == IF duration_text.min # <<>> THEN IntOf(duration_text.min) ELSE 0
        total == hours * 60 + minutes
    IN  IF duration_text.text = "" THEN <<>>
        ELSE IF total > 0 THEN StrOf(total) ELSE <<>>

\* Lines 286-290 of plugins/fordpass.py: the value of the label "charge",
\* or else the first line of the section "charge"
ChargeText(labelled, charge_section) ==
    IF labelled.text # "" THEN labelled
    ELSE IF charge_section # <<>> THEN charge_section[1]
    ELSE labelled

\* Lines 291-358 of plugins/fordpass.py: the record, from what the lookups
\* found; scanned_pct and scanned_miles are what the fallback scan finds.
AssembleRecord(charger, duration, kwh_text, charge_text, scanned_pct, scanned_miles, additional, cost_value) ==
    LET charge_percentage == IF charge_text.text # "" /\ charge_text.pct # <<>>
                             THEN charge_text.pct ELSE scanned_pct
    IN  [date |-> IF additional.start_date # "" THEN additional.start_date
                  ELSE additional.end_date,
         charger_name |-> charger.name,
         charger_location |-> charger.location,
         duration_minutes |-> parse_duration_minutes(duration),
         kwh_added |-> kwh_text.kwh,
         charge_percentage |-> charge_percentage,
         charge_miles |-> IF charge_text.text # "" /\ charge_text.miles # ""
                          THEN charge_text.miles ELSE scanned_miles,
         start_time |-> additional.start_time,
         end_time |-> additional.end_time,
         start_percentage |-> additional.start_pct,
         end_percentage |-> RepairEnd(additional.start_pct, additional.end_pct,
                                      charge_percentage),
         cost |-> cost_value,
         charger_brand |-> charger.brand]

\* plugins/fordpass.py, extract_record_from_text (235-359)
extract_record_from_text(lines) ==
    AssembleRecord(ChargerInfo(lines, "plugins.fordpass"),
                   extract_label_value(lines, "time charging"),
                   extract_label_value(lines, "energy added"),
                   ChargeText(extract_label_value(lines, "charge"),
                              extract_section(lines, "charge")),
                   ScanBeforeDetails(lines, "pct", <<>>),
                   ScanBeforeDetails(lines, "miles", ""),
                   fordpass_extract_additional_details(lines),
                   SearchText(lines, "cost"))

\* Lines 281-317 of charge_parser.py: the record, from what the lookups found
AssembleFordpassRecord(charger, duration, kwh_text, charge_text, charger_kw, additional, cost_value) ==
    [date |-> IF additional.start_date # "" THEN additional.start_date
              ELSE additional.end_date,
     charger_name |-> charger.name,
     charger_location |-> charger.location,
     duration |-> duration.text,
     kwh_added |-> kwh_text.kwh,
     charger_kw_rating |-> charger_kw,
     charge_percentage |-> charge_text.pct,
     charge_miles |-> charge_text.miles,
     start_time |-> additional.start_time,
     end_time |-> additional.end_time,
     start_percentage |-> additional.start_pct,
     end_percentage |-> additional.end_pct,
     cost |-> cost_value,
     charger_brand |-> charger.brand]

\* charge_parser.py, _extract_fordpass_record_from_text (242-318)
extract_fordpass_record_from_text(lines) ==
    AssembleFordpassRecord(ChargerInfo(lines, "charge_parser"),
                           extract_label_value(lines, "time charging"),
                           extract_label_value(lines, "energy added"),
                           extract_label_value(lines, "charge"),
                           SearchText(lines, "kw"),
                           extract_additional_details(lines),
                           SearchText(lines, "cost"))

\* The two classes named FordPassPlugin: the one of plugins/fordpass.py and
\* the one of charge_parser.py, which main and the tests use.
Modules == {"plugins.fordpass", "charge_parser"}

ParseIdle ==
    /\ p_module = "charge_parser"
    /\ p_text = <<>>
    /\ p_pc = "off"
    /\ p_record = <<>>

ParseStart ==
    /\ p_module \in Modules
    /\ p_text \in Texts
    /\ p_pc = "text"
    /\ p_record = <<>>

parseOthers == <<selVars, repVars, ledVars, wrVars, mainVars, laterVars>>

\* plugins/fordpass.py, FordPassPlugin.parse (378-379)
FordpassParse ==
    /\ p_pc = "text"
    /\ p_module = "plugins.fordpass"
    /\ p_record' = extract_record_from_text(p_text)
    /\ p_pc' = "parsed"
    /\ UNCHANGED <<p_module, p_text, parseOthers>>

\* charge_parser.py, FordPassPlugin.parse (386-387)
ChargeParserParse ==
    /\ p_pc = "text"
    /\ p_module = "charge_parser"
    /\ p_record' = extract_fordpass_record_from_text(p_text)
    /\ p_pc' = "parsed"
    /\ UNCHANGED <<p_module, p_text, parseOthers>>

\* The keys of a record, as the schema fixes them
RecordKeys ==
    {"date", "charger_name", "charger_location", "duration_minutes", "kwh_added",
     "charge_percentage", "charge_miles", "start_time", "end_time",
     "start_percentage", "end_percentage", "cost", "charger_brand"}

\* The fields the code makes with str() or reads with int()
DigitKeys ==
    {"charge_percentage", "start_percentage", "end_percentage", "duration_minutes"}

\* A text in which no line has a label, a date, a time or an amount
NothingRecognised(lines) ==
    \A i \in DOMAIN lines :
        LET line == LineOf[lines[i]]
        IN  [line EXCEPT !.text = "", !.brand = ""] = BlankLine

\* C10: for every input text, FordPassPlugin.parse returns a record whose
\* key set is exactly the thirteen keys of the schema, every value a string,
\* and every field empty when the text has nothing to find.
C10_RecordHasSchemaKeys ==
    p_pc = "parsed" =>
        /\ DOMAIN p_record = RecordKeys
        /\ \A k \in RecordKeys :
              IF k \in DigitKeys THEN p_record[k] \in Seq(0..9)
              ELSE p_record[k] \in STRING
        /\ NothingRecognised(p_text) =>
              \A k \in RecordKeys :
                 IF k \in DigitKeys THEN p_record[k] = <<>> ELSE p_record[k] = ""

\* A line that belongs to a block: not blank and no section boundary
IsBlockLine(t) == t # "" /\ ~lower_is_section_break(t)

\* The block that starts at line start: the lines up to the first section
\* boundary other than 'summary' and 'charge details', those two and the
\* blank lines left out
BlockAfter(lines, start) ==
    LET stops == {i \in start..Len(lines) :
                    /\ lines[i] # ""
                    /\ lower_is_section_break(lines[i])
                    /\ LineOf[lines[i]].equals \notin {"summary", "charge details"}}
        stop == IF stops = {} THEN Len(lines) + 1
                ELSE CHOOSE i \in stops : \A j \in stops : i <= j
    IN  SelectSeq(SubSeq(lines, start, stop - 1), IsBlockLine)

\* The block the name and the location come from
ChosenBlock(lines) ==
    LET summary_idx == FirstIndex(lines, "summary")
        details_idx == FirstIndex(lines, "charge details")
    IN  IF summary_idx # 0 /\ BlockAfter(lines, summary_idx + 1) # <<>>
        THEN BlockAfter(lines, summary_idx + 1)
        ELSE IF details_idx # 0 THEN BlockAfter(lines, details_idx + 1)
        ELSE <<>>

\* C21: charger_name and charger_location come from the block after the
\* first line containing 'summary' when it yields a name, otherwise from
\* the block after the first line containing 'charge details'; lines equal
\* to 'summary' or 'charge details' are skipped inside a block and any
\* other section boundary ends it. plugins.fordpass takes the last line of
\* the block as the location and the lines before it as the name,
\* charge_parser the first line as the name and the second as the location.
C21_NameLocationBlock ==
    p_pc = "parsed" =>
        LET block == ChosenBlock(p_text)
            n == Len(block)
        IN  IF n = 0
            THEN p_record["charger_name"] = "" /\ p_record["charger_location"] = ""
            ELSE IF n = 1
            THEN p_record["charger_name"] = block[1] /\ p_record["charger_location"] = ""
            ELSE IF p_module = "plugins.fordpass"
            THEN /\ p_record["charger_name"] = Join(SubSeq(block, 1, n - 1))
                 /\ p_record["charger_location"] = block[n]
            ELSE /\ p_record["charger_name"] = block[1]
                 /\ p_record["charger_location"] = block[2]

\* The block under 'summary' is empty and the record has the name found
\* under 'charge details'.
C21_FallbackToChargeDetails ==
    /\ p_pc = "parsed"
    /\ FirstIndex(p_text, "summary") # 0
    /\ FirstIndex(p_text, "charge details") # 0
    /\ BlockAfter(p_text, FirstIndex(p_text, "summary") + 1) = <<>>
    /\ p_record["charger_name"] # ""

\* What the lookup of the label 'charge' gives the module that runs
ChargeLookup ==
    IF p_module = "plugins.fordpass"
    THEN ChargeText(extract_label_value(p_text, "charge"),
                    extract_section(p_text, "charge"))
    ELSE extract_label_value(p_text, "charge")

\* The lines strictly before the first line containing 'additional
\* details' (all lines when there is none) in which field is found
FoundBeforeBoundary(field, empty) ==
    LET boundary == FirstIndex(p_text, "additional details")
    IN  {j \in DOMAIN p_text :
            /\ boundary # 0 => j < boundary
            /\ LineOf[p_text[j]][field] # empty}

\* What the fallback scan may give a field the lookup left empty: nothing,
\* or what the first of the lines before the boundary has.
FallbackValues(field, empty) ==
    LET found == FoundBeforeBoundary(field, empty)
    IN  IF found = {} THEN {empty}
        ELSE {empty, LineOf[p_text[CHOOSE j \in found : \A k \in found : j <= k]][field]}

\* C23: charge_percentage and charge_miles are what the lookup of 'charge'
\* found whenever it found them; the fallback scan fills only the one the
\* lookup left empty, and only from a line strictly before the first line
\* containing 'additional details', never from a start or end line after it.
C23_FallbackBeforeBoundary ==
    p_pc = "parsed" =>
        /\ IF ChargeLookup.pct # <<>>
           THEN p_record["charge_percentage"] = ChargeLookup.pct
           ELSE p_record["charge_percentage"] \in FallbackValues("pct", <<>>)
        /\ IF ChargeLookup.miles # ""
           THEN p_record["charge_miles"] = ChargeLookup.miles
           ELSE p_record["charge_miles"] \in FallbackValues("miles", "")
        /\ (p_module = "plugins.fordpass" /\ ChargeLookup.pct = <<>>
              /\ FoundBeforeBoundary("pct", <<>>) # {})
             => p_record["charge_percentage"] # <<>>

\* The lookup found no percentage, the fallback took one from a line before
\* 'additional details', and a start or end line after it has another one.
C23_FallbackFilledPercentage ==
    /\ p_pc = "parsed"
    /\ ChargeLookup.pct = <<>>
    /\ p_record["charge_percentage"] # <<>>
    /\ LET boundary == FirstIndex(p_text, "additional details")
       IN  /\ boundary # 0
           /\ \E j \in (boundary + 1)..Len(p_text) :
                 /\ LineOf[p_text[j]].lead # ""
                 /\ LineOf[p_text[j]].pct \notin {<<>>, p_record["charge_percentage"]}

\* C11: the record charge_parser.extract_record_from_text returns holds the
\* text found for "Time charging" under "duration" and, under
\* "duration_minutes", N*60+M as a decimal string for its N hr and M min,
\* empty when neither is there or the total is zero.
C11_DurationAndMinutes ==
    (p_pc = "parsed" /\ p_module = "charge_parser") =>
        LET duration == extract_label_value(p_text, "time charging")
            N == IF duration.hr # <<>> THEN IntOf(duration.hr) ELSE 0
            M == IF duration.min # <<>> THEN IntOf(duration.min) ELSE 0
        IN  /\ {"duration", "duration_minutes"} \subseteq DOMAIN p_record
            /\ p_record["duration"] = duration.text
            /\ p_record["duration_minutes"] =
                  IF N * 60 + M > 0 THEN StrOf(N * 60 + M) ELSE <<>>

\* CSV_COLUMNS (charge_parser.py 33-48), the fieldnames of the DictWriter
CSV_COLUMNS ==
    {"date", "charger_name", "charger_location", "duration", "kwh_added",
     "charger_kw_rating", "charge_percentage", "charge_miles", "start_time",
     "end_time", "start_percentage", "end_percentage", "cost", "charger_brand"}

\* A row whose keys are the fields of the schema: it has a key outside
\* CSV_COLUMNS exactly if the schema has a field CSV_COLUMNS lacks.
IsSchemaRow(row) == row.extra_key = (RecordKeys \ CSV_COLUMNS # {})

\* C25: write_csv in append mode never drops or alters a stored row: every
\* row of the ledger before the call is in the ledger after it with the
\* same values, and a row of the ledger after the call whose dedup key a
\* stored row had is that stored row, not the input row.
C25_AppendKeepsStoredRows ==
    [][call_append' =>
         /\ \A i \in DOMAIN ledger.rows :
               \E j \in DOMAIN ledger'.rows : ledger'.rows[j] = ledger.rows[i]
         /\ \A j \in DOMAIN ledger'.rows :
               dedup_key(ledger'.rows[j]) \in Keys(ledger.rows)
                  => \E i \in DOMAIN ledger.rows : ledger.rows[i] = ledger'.rows[j]]_vars

\* C12: write_csv writes without raising every row whose keys are the
\* fields of the schema, duration_minutes included, so such rows are in the
\* ledger after the call.
C12_SchemaRowsWritable ==
    (/\ call_result.called
     /\ \A i \in DOMAIN call_rows : IsSchemaRow(call_rows[i]))
        => /\ ~call_result.raised
           /\ Keys(call_rows) \subseteq Keys(ledger.rows)

\* The decimal digits as text, and a number below 100 as two digits
DigitText == <<"0", "1", "2", "3", "4", "5", "6", "7", "8", "9">>

TwoDigitText(n) == DigitText[(n \div 10) + 1] \o DigitText[(n % 10) + 1]

\* The times of a 24-hour clock written with ':', hour 0-23 in one or two
\* digits and minute 00-59
ClockTimes ==
    {TwoDigitText(h) \o ":" \o TwoDigitText(mi) : h \in 0..23, mi \in 0..59}
      \cup {DigitText[h + 1] \o ":" \o TwoDigitText(mi) : h \in 0..9, mi \in 0..59}

\* C18: start_time and end_time of a parsed record are each empty or a
\* valid 24-hour clock time written with ':' (hour 0-23, minute 0-59).
C18_TimesAreClockTimes ==
    p_pc = "parsed" =>
        /\ p_record["start_time"] \in {""} \cup ClockTimes
        /\ p_record["end_time"] \in {""} \cup ClockTimes

(***************************************************************************)
(* The label locator on its own: extract_label_value and extract_section   *)
(* of plugins/fordpass.py called on one list of lines with one label.      *)
(***************************************************************************)
MaxLabelLines == 3

\* The labels the callers pass that the lines of LabelPool carry
Labels == {"charge", "energy added"}

RECURSIVE LabelTextsUpTo(_)
LabelTextsUpTo(n) ==
    IF n = 0 THEN {<<>>}
    ELSE LET shorter == LabelTextsUpTo(n - 1)
         IN  shorter \cup {Append(t, l.text) : t \in shorter, l \in LabelPool}

LabelIdle ==
    /\ l_lines = <<>>
    /\ l_label = "charge"
    /\ l_value = None
    /\ l_section = None

LabelStart ==
    /\ l_lines \in LabelTextsUpTo(MaxLabelLines)
    /\ l_label \in Labels
    /\ l_value = None
    /\ l_section = None

labelOthers == <<selVars, repVars, ledVars, wrVars, mainVars, parseVars, detailVars, discoverVars, keywordVars>>

\* extract_label_value(lines, label) is called and returns (fordpass.py 37-64)
CallExtractLabelValue ==
    /\ l_value = None
    /\ l_value' = Some(extract_label_value(l_lines, l_label).text)
    /\ UNCHANGED <<l_lines, l_label, l_section, labelOthers>>

\* extract_section(lines, label) is called and returns (fordpass.py 87-110)
CallExtractSection ==
    /\ l_section = None
    /\ l_section' = Some(LET section == extract_section(l_lines, l_label)
                         IN  [i \in DOMAIN section |-> section[i].text])
    /\ UNCHANGED <<l_lines, l_label, l_value, labelOthers>>

\* The lines that start with the label: the label alone, with a colon, or
\* followed by more text
Occurrences(lines, label) ==
    {i \in DOMAIN lines :
        LineOf[lines[i]].label = label \/ StartsWithLabel(lines[i], label)}

\* The first non-blank line after line idx, or the empty string
NextNonBlank(lines, idx) ==
    LET later == {j \in (idx + 1)..Len(lines) : lines[j] # ""}
    IN  IF later = {} THEN ""
        ELSE lines[CHOOSE j \in later : \A k \in later : j <= k]

\* C13: for a label that occurs exactly once, extract_label_value returns
\* the trimmed remainder when the line is 'label value' or 'label: value',
\* and the next non-blank line when the label stands alone on its line,
\* with or without a trailing colon.
C13_BothLayouts ==
    (l_value # None /\ Cardinality(Occurrences(l_lines, l_label)) = 1) =>
        LET idx == CHOOSE i \in Occurrences(l_lines, l_label) : TRUE
            line == LineOf[l_lines[idx]]
        IN  line.label = l_label =>
               IF line.remainder # ""
               THEN line.remainder_kept => l_value = Some(line.remainder)
               ELSE l_value = Some(NextNonBlank(l_lines, idx))

\* The lines that match the label: a direct match, or an inline match whose
\* remainder begins with a digit, a sign, '(' or '$'
Matches(lines, label) ==
    {i \in DOMAIN lines :
        LET line == LineOf[lines[i]]
        IN  line.direct = label \/ (line.begins = label /\ line.rest_kept)}

\* The value that goes with the matching line idx: its inline remainder, or
\* the next line after it that is not blank and not an echo of the label
ValueOfMatch(lines, label, idx) ==
    LET line == LineOf[lines[idx]]
        later == {j \in (idx + 1)..Len(lines) :
                    lines[j] # "" /\ ~StartsWithLabel(lines[j], label)}
    IN  IF line.direct # label THEN line.rest
        ELSE IF later = {} THEN ""
        ELSE lines[CHOOSE j \in later : \A k \in later : j <= k]

\* C14: extract_label_value returns the value that goes with the first
\* matching line, never one a matching line further down supplies, and the
\* empty string when no line matches.
C14_FirstMatchWins ==
    l_value # None =>
        LET matching == Matches(l_lines, l_label)
            first == CHOOSE i \in matching : \A j \in matching : i <= j
        IN  IF matching = {} THEN l_value = Some("")
            ELSE l_value = Some(ValueOfMatch(l_lines, l_label, first))

\* C19: extract_section starts the section at the first line that matches
\* the label by the rule of extract_label_value (for 'charge', not at
\* 'Charge details') and returns the empty sequence when no line matches.
C19_SectionUsesLabelRule ==
    l_section # None =>
        LET matching == Matches(l_lines, l_label)
            first == CHOOSE i \in matching : \A j \in matching : i <= j
            followers == SectionFollowers(l_lines, first + 1)
            inline == IF LineOf[l_lines[first]].direct = l_label THEN <<>>
                      ELSE <<LineOf[l_lines[first]].rest>>
        IN  IF matching = {} THEN l_section = Some(<<>>)
            ELSE l_section =
                   Some(inline \o [i \in DOMAIN followers |-> followers[i].text])

(***************************************************************************)
(* The for loop of extract_additional_details, one line at a time, on the  *)
(* lines that follow "Additional details".                                 *)
(***************************************************************************)
MaxSection == 3

RECURSIVE SectionsUpTo(_)
SectionsUpTo(n) ==
    IF n = 0 THEN {<<>>}
    ELSE LET shorter == SectionsUpTo(n - 1)
         IN  shorter \cup {Append(t, l.text) : t \in shorter, l \in SectionPool}

\* The locals of extract_additional_details before the loop
DetailsLocals == [result |-> NoDetails, current_date |-> "", pending_time |-> ""]

DetailIdle ==
    /\ d_module = "charge_parser"
    /\ d_section = <<>>
    /\ d_idx = 1
    /\ d_at = DetailsLocals
    /\ d_pc = "off"

DetailStart ==
    /\ d_module \in Modules
    /\ d_section \in SectionsUpTo(MaxSection)
    /\ d_idx = 1
    /\ d_at = DetailsLocals
    /\ d_pc = "loop"

detailOthers == <<selVars, repVars, ledVars, wrVars, mainVars, parseVars, labelVars, discoverVars, keywordVars>>

\* The TIME_PATTERN of the module that runs
TimeField == IF d_module = "plugins.fordpass" THEN FordpassTime ELSE ChargeParserTime

\* Whether the module has the rule for a line that is only a time
Standalone == d_module = "plugins.fordpass"

\* One pass of the loop (fordpass.py 165-204, charge_parser.py 200-227)
DetailsLine ==
    /\ d_pc = "loop"
    /\ d_idx <= Len(d_section)
    /\ d_at' = DetailsStep(d_section, d_idx, d_at, TimeField, Standalone)
    /\ d_idx' = d_idx + 1
    /\ UNCHANGED <<d_module, d_section, d_pc, detailOthers>>

\* return result (fordpass.py 205, charge_parser.py 228)
DetailsReturn ==
    /\ d_pc = "loop"
    /\ d_idx > Len(d_section)
    /\ d_pc' = "returned"
    /\ UNCHANGED <<d_module, d_section, d_idx, d_at, detailOthers>>

\* The value of an empty field of result
EmptyField(field) == IF field \in {"start_pct", "end_pct"} THEN <<>> ELSE ""

\* Line i of the section is one the loop takes as a start or end line
IsMarker(i, lead) ==
    LET line == LineOf[d_section[i]]
    IN  /\ line.text # ""
        /\ ~line.has_date
        /\ ~(Standalone /\ line[TimeField] # "" /\ line.time_only)
        /\ line.lead = lead

\* C15: once a field of result has a non-empty value, no later line of the
\* block changes it.
C15_FirstValueWins ==
    [][\A field \in DOMAIN NoDetails :
          d_at.result[field] # EmptyField(field)
             => d_at'.result[field] = d_at.result[field]]_vars

\* A later start line that has a time and a percentage of its own was
\* processed and start_time and start_pct still hold the earlier values.
C15_LaterStartLineSeen ==
    /\ d_pc = "loop"
    /\ d_idx > 2
    /\ IsMarker(d_idx - 1, "start")
    /\ \E i \in 1..(d_idx - 2) : IsMarker(i, "start")
    /\ LET line == LineOf[d_section[d_idx - 1]]
       IN  /\ line[TimeField] # ""
           /\ line.pct # <<>>
           /\ d_at.result.start_time \notin {"", line[TimeField]}
           /\ d_at.result.start_pct \notin {<<>>, line.pct}

\* C16: a date line sets pending_time to the time on the line, or clears it
\* when the line has none; a start or end line met while pending_time is set
\* and its time field is empty takes that pending time; and pending_time is
\* empty after every start or end line.
C16_PendingTimeProtocol ==
    [][(d_pc = "loop" /\ d_idx' = d_idx + 1) =>
         LET line == LineOf[d_section[d_idx]]
         IN  /\ (line.text # "" /\ line.has_date)
                  => d_at'.pending_time = line[TimeField]
             /\ \A lead \in {"start", "end"} :
                  IsMarker(d_idx, lead) =>
                     /\ d_at'.pending_time = ""
                     /\ (d_at.pending_time # "" /\ d_at.result[lead \o "_time"] = "")
                          => d_at'.result[lead \o "_time"] = d_at.pending_time]_vars

\* A date line with a time was followed by a start line that has another
\* time of its own, and start_time is the time of the date line.
C16_PendingTimeTaken ==
    /\ d_pc = "loop"
    /\ d_idx = 3
    /\ IsMarker(2, "start")
    /\ LET date_line == LineOf[d_section[1]]
           line == LineOf[d_section[2]]
       IN  /\ date_line.has_date
           /\ date_line[TimeField] # ""
           /\ line[TimeField] \notin {"", date_line[TimeField]}
           /\ d_at.result.start_time = date_line[TimeField]
           /\ d_at.pending_time = ""

\* The first 'end' marker line after line idx, or the line after the last
NextEndMarker(idx) ==
    LET ends == {j \in (idx + 1)..Len(d_section) : IsMarker(j, "end")}
    IN  IF ends = {} THEN Len(d_section) + 1
        ELSE CHOOSE j \in ends : \A k \in ends : j <= k

\* The loop fills start_time and start_pct on the start marker line d_idx
\* with values found in the lines d_idx..last, or with the pending time.
StartFilledFrom(last) ==
    /\ (d_at.result.start_time = "" /\ d_at'.result.start_time # "")
         => \/ d_at'.result.start_time = d_at.pending_time
            \/ \E j \in d_idx..last :
                  LineOf[d_section[j]][TimeField] = d_at'.result.start_time
    /\ (d_at.result.start_pct = <<>> /\ d_at'.result.start_pct # <<>>)
         => \E j \in d_idx..last :
               LineOf[d_section[j]].pct = d_at'.result.start_pct

\* C26 as stated: start_time and start_percentage are taken only from the
\* pending time, the 'start' marker line itself, or the lines between it
\* and the next 'end' marker line, never from an 'end' marker line.
C26_StartNeverFromEndLine ==
    [][(d_pc = "loop" /\ d_idx' = d_idx + 1) =>
         IF IsMarker(d_idx, "start")
         THEN StartFilledFrom(NextEndMarker(d_idx) - 1)
         ELSE /\ d_at'.result.start_time = d_at.result.start_time
              /\ d_at'.result.start_pct = d_at.result.start_pct]_vars

\* C26 amended: start_time and start_percentage are taken only from the
\* pending time, the 'start' marker line itself, or a line of the block
\* after it, which can be an 'end' marker line; never from a line before
\* the 'start' marker line.
C26_StartFromMarkerOnwards ==
    [][(d_pc = "loop" /\ d_idx' = d_idx + 1) =>
         IF IsMarker(d_idx, "start")
         THEN StartFilledFrom(Len(d_section))
         ELSE /\ d_at'.result.start_time = d_at.result.start_time
              /\ d_at'.result.start_pct = d_at.result.start_pct]_vars

\* An 'end' line with a time came before a 'start' line without one, and
\* start_time is that of a line after the 'start' line.
C26_StartAfterEarlierEndTime ==
    /\ d_pc = "loop"
    /\ d_idx = 3
    /\ Len(d_section) >= 3
    /\ IsMarker(1, "end")
    /\ IsMarker(2, "start")
    /\ LineOf[d_section[1]][TimeField] # ""
    /\ LineOf[d_section[2]][TimeField] = ""
    /\ d_at.result.start_time \notin {"", LineOf[d_section[1]][TimeField]}
    /\ d_at.result.start_time = LineOf[d_section[3]][TimeField]

\* Lines i, i+1 and i+2 are a date without a time, a time alone and a
\* start or end line without a time, and no such marker comes before them.
SplitDateTime(i, lead) ==
    /\ i + 2 <= Len(d_section)
    /\ LineOf[d_section[i]].has_date
    /\ LineOf[d_section[i]].time = ""
    /\ ~LineOf[d_section[i + 1]].has_date
    /\ LineOf[d_section[i + 1]].time_only
    /\ LineOf[d_section[i + 2]].lead = lead
    /\ ~LineOf[d_section[i + 2]].has_date
    /\ LineOf[d_section[i + 2]].time = ""
    /\ \A j \in 1..(i + 1) : LineOf[d_section[j]].lead # lead

\* C17: a line that is only a time sets pending_time, and a date-only line,
\* a time-only line and a 'Start' line without a time give start_time the
\* value of the time-only line (the same for 'End').
C17_SplitDateTimeRecombined ==
    /\ (d_pc = "loop" /\ d_idx > 1 /\ LineOf[d_section[d_idx - 1]].time_only
          /\ ~LineOf[d_section[d_idx - 1]].has_date)
         => d_at.pending_time = LineOf[d_section[d_idx - 1]].time
    /\ \A lead \in {"start", "end"} : \A i \in DOMAIN d_section :
         (SplitDateTime(i, lead) /\ d_idx > i + 2)
            => d_at.result[lead \o "_time"] = LineOf[d_section[i + 1]].time

(***************************************************************************)
(* Plugin discovery (plugins/base.py): the classes are numbered in the     *)
(* order they were defined, 0 is ChargingAppPlugin, and every class has    *)
(* its bases among the classes defined before it.                          *)
(***************************************************************************)
MaxClasses == 3
MaxCalls == 2

\* The values of the class attribute name, in the order str compares them
NameOrder == <<"base", "evgo", "fordpass">>

NameRank(name) == CHOOSE i \in DOMAIN NameOrder : NameOrder[i] = name

\* The class hierarchies of n classes, and the names the classes have
Hierarchies(n) ==
    {parents \in [1..n -> SUBSET (0..(n - 1))] :
        \A c \in 1..n : parents[c] # {} /\ parents[c] \subseteq 0..(c - 1)}

DiscoverIdle ==
    /\ c_parents = <<>>
    /\ c_names = <<>>
    /\ c_calls = <<>>

DiscoverStart ==
    /\ \E n \in 0..MaxClasses :
          /\ c_parents \in Hierarchies(n)
          /\ c_names \in [1..n -> {NameOrder[i] : i \in DOMAIN NameOrder}]
    /\ c_calls = <<>>

discoverOthers == <<selVars, repVars, ledVars, wrVars, mainVars, parseVars, labelVars, detailVars, keywordVars>>

RECURSIVE all_subclasses(_)
RECURSIVE SubclassesFrom(_, _)
\* The loop of _all_subclasses over cls.__subclasses__(), the classes that
\* have cls among their bases in the order they were defined, from d on
SubclassesFrom(cls, d) ==
    IF d > Len(c_parents) THEN <<>>
    ELSE (IF cls \in c_parents[d] THEN <<d>> \o all_subclasses(d) ELSE <<>>)
           \o SubclassesFrom(cls, d + 1)

\* _all_subclasses (32-37)
all_subclasses(cls) == SubclassesFrom(cls, cls + 1)

\* cls(): an instance, with the name its class gives it
Instance(cls) == [cls |-> cls, name |-> c_names[cls]]

RECURSIVE InstantiateUnseen(_, _, _)
\* The for loop of discover_plugins (45-51) from element i of classes on
InstantiateUnseen(classes, i, plugins) ==
    IF i > Len(classes) THEN plugins
    ELSE LET cls == classes[i]
             seen == {plugins[k].name : k \in DOMAIN plugins}
         IN  IF cls = 0 \/ c_names[cls] \in seen
             THEN InstantiateUnseen(classes, i + 1, plugins)
             ELSE InstantiateUnseen(classes, i + 1, Append(plugins, Instance(cls)))

RECURSIVE InstantiateAll(_, _, _)
\* The loop without the test of seen
InstantiateAll(classes, i, plugins) ==
    IF i > Len(classes) THEN plugins
    ELSE InstantiateAll(classes, i + 1, Append(plugins, Instance(classes[i])))

\* plugin goes after the entries whose name is not greater than its own
InsertByName(sorted, plugin) ==
    LET before == {k \in DOMAIN sorted :
                     NameRank(sorted[k].name) <= NameRank(plugin.name)}
        n == Cardinality(before)
    IN  SubSeq(sorted, 1, n) \o <<plugin>> \o SubSeq(sorted, n + 1, Len(sorted))

RECURSIVE SortByName(_)
\* plugins.sort(key=lambda plugin: plugin.name): stable, ascending (52)
SortByName(plugins) ==
    IF plugins = <<>> THEN <<>>
    ELSE InsertByName(SortByName(SubSeq(plugins, 1, Len(plugins) - 1)),
                      plugins[Len(plugins)])

\* discover_plugins without the set seen
DiscoverKeepsRepeats == SortByName(InstantiateAll(all_subclasses(0), 1, <<>>))

\* discover_plugins (40-53)
discover_plugins == SortByName(InstantiateUnseen(all_subclasses(0), 1, <<>>))

\* A caller calls discover_plugins() and keeps what it returns
CallDiscoverPlugins ==
    /\ Len(c_calls) < MaxCalls
    /\ c_calls' = Append(c_calls, discover_plugins)
    /\ UNCHANGED <<c_parents, c_names, discoverOthers>>

\* C20: discover_plugins returns one instance per distinct name among the
\* subclasses of ChargingAppPlugin and never the base class, in ascending
\* order of name with no name twice, and every call returns the same names
\* in the same order.
C20_DiscoverSortedDistinct ==
    \A k \in DOMAIN c_calls :
        LET plugins == c_calls[k]
        IN  /\ {plugins[i].name : i \in DOMAIN plugins}
                 = {c_names[c] : c \in DOMAIN c_names}
            /\ \A i \in DOMAIN plugins :
                  /\ plugins[i].cls \in DOMAIN c_names
                  /\ plugins[i].name = c_names[plugins[i].cls]
            /\ \A i, j \in DOMAIN plugins :
                  i < j => NameRank(plugins[i].name) < NameRank(plugins[j].name)
            /\ [i \in DOMAIN plugins |-> plugins[i].name]
                 = [i \in DOMAIN c_calls[1] |-> c_calls[1][i].name]

\* discover_plugins was called twice on classes of which two share a name,
\* one is listed twice by _all_subclasses, and the first defined has a name
\* greater than a later one's.
C20_RepeatedNamesDiscovered ==
    /\ Len(c_calls) = 2
    /\ Len(c_calls[1]) >= 2
    /\ \E c, d \in DOMAIN c_names : c # d /\ c_names[c] = c_names[d]
    /\ \E c \in DOMAIN c_names : Cardinality(c_parents[c]) > 1
    /\ \E c \in DOMAIN c_names : NameRank(c_names[c]) < NameRank(c_names[1])

(***************************************************************************)
(* extract_keywords (generate_plugin.py). A text is a sequence of words    *)
(* separated by blanks; TokensOf is what                                   *)
(* re.findall(r"[A-Za-z]{4,}", word.lower()) finds in each word.           *)
(***************************************************************************)
MaxWords == 4
MaxLimit == 3

TokensOf ==
    ("ChargePoint" :> <<"chargepoint">>) @@ ("energy" :> <<"energy">>)
      @@ ("Energy" :> <<"energy">>) @@ ("station" :> <<"station">>)
      @@ ("kWh" :> <<>>) @@ ("charge5station" :> <<"charge", "station">>)

RECURSIVE WordsUpTo(_)
WordsUpTo(n) ==
    IF n = 0 THEN {<<>>}
    ELSE LET shorter == WordsUpTo(n - 1)
         IN  shorter \cup {Append(t, w) : t \in shorter, w \in DOMAIN TokensOf}

KeywordIdle ==
    /\ k_text = <<>>
    /\ k_limit = 0
    /\ k_keywords = None

KeywordStart ==
    /\ k_text \in WordsUpTo(MaxWords)
    /\ k_limit \in 0..MaxLimit
    /\ k_keywords = None

keywordOthers == <<selVars, repVars, ledVars, wrVars, mainVars, parseVars, labelVars, detailVars, discoverVars>>

RECURSIVE FindTokens(_)
\* tokens = re.findall(..., text.lower()) (29)
FindTokens(text) ==
    IF text = <<>> THEN <<>> ELSE TokensOf[Head(text)] \o FindTokens(Tail(text))

\* counts[word] of Counter(tokens) (30)
CountOf(tokens, word) == Cardinality({i \in DOMAIN tokens : tokens[i] = word})

RECURSIVE CounterKeys(_)
\* The keys of Counter(tokens), in the order they were first counted
CounterKeys(tokens) ==
    IF tokens = <<>> THEN <<>>
    ELSE LET before == CounterKeys(SubSeq(tokens, 1, Len(tokens) - 1))
             word == tokens[Len(tokens)]
         IN  IF \E i \in DOMAIN before : before[i] = word THEN before
             ELSE Append(before, word)

\* word goes after the entries whose count is not smaller than its own
InsertByCountDesc(tokens, sorted, word) ==
    LET before == {k \in DOMAIN sorted :
                     CountOf(tokens, sorted[k]) >= CountOf(tokens, word)}
        n == Cardinality(before)
    IN  SubSeq(sorted, 1, n) \o <<word>> \o SubSeq(sorted, n + 1, Len(sorted))

RECURSIVE SortByCountDesc(_, _)
SortByCountDesc(tokens, keys) ==
    IF keys = <<>> THEN <<>>
    ELSE InsertByCountDesc(tokens,
                           SortByCountDesc(tokens, SubSeq(keys, 1, Len(keys) - 1)),
                           keys[Len(keys)])

\* counts.most_common(): the words by descending count, words of one count
\* in the order they were first counted (32)
most_common(tokens) == SortByCountDesc(tokens, CounterKeys(tokens))

RECURSIVE KeywordsLoop(_, _, _, _)
\* The for loop of extract_keywords (32-36) from element i of ranked on
KeywordsLoop(ranked, i, keywords, limit) ==
    IF i > Len(ranked) THEN keywords
    ELSE LET word == ranked[i]
             appended == IF \E k \in DOMAIN keywords : keywords[k] = word
                         THEN keywords ELSE Append(keywords, word)
         IN  IF Len(appended) >= limit THEN appended
             ELSE KeywordsLoop(ranked, i + 1, appended, limit)

\* extract_keywords (28-37)
extract_keywords(text, limit) ==
    KeywordsLoop(most_common(FindTokens(text)), 1, <<>>, limit)

\* extract_keywords(text, limit) is called and returns
CallExtractKeywords ==
    /\ k_keywords = None
    /\ k_keywords' = Some(extract_keywords(k_text, k_limit))
    /\ UNCHANGED <<k_text, k_limit, keywordOthers>>

\* The place of the first occurrence of word in tokens
FirstPlace(tokens, word) ==
    CHOOSE i \in DOMAIN tokens :
        tokens[i] = word /\ \A j \in DOMAIN tokens : tokens[j] = word => i <= j

\* word a comes before word b: it is more frequent, or as frequent and
\* first seen earlier
RanksBefore(tokens, a, b) ==
    \/ CountOf(tokens, a) > CountOf(tokens, b)
    \/ /\ CountOf(tokens, a) = CountOf(tokens, b)
       /\ FirstPlace(tokens, a) < FirstPlace(tokens, b)

\* C22: for every text and every limit >= 0, extract_keywords returns at
\* most limit keywords: distinct lower-cased alphabetic tokens of four
\* letters or more, the most frequent ones, by descending frequency and,
\* for equal frequency, in the order of first occurrence.
C22_KeywordsWithinLimit ==
    k_keywords # None =>
        LET tokens == FindTokens(k_text)
            words == {tokens[i] : i \in DOMAIN tokens}
            keywords == k_keywords[1]
            kept == {keywords[i] : i \in DOMAIN keywords}
        IN  /\ Len(keywords) <= k_limit
            /\ kept \subseteq words
            /\ Cardinality(kept) = Len(keywords)
            /\ \A i, j \in DOMAIN keywords :
                  i < j => RanksBefore(tokens, keywords[i], keywords[j])
            /\ \A a \in kept : \A b \in words \ kept : RanksBefore(tokens, a, b)

LaterIdle == LabelIdle /\ DetailIdle /\ DiscoverIdle /\ KeywordIdle

(***************************************************************************)
(* Specifications                                                          *)
(***************************************************************************)

LabelInit == LabelStart /\ SelIdle /\ RepIdle /\ LedIdle /\ WrIdle /\ MainIdle /\ ParseIdle /\ DetailIdle /\ DiscoverIdle /\ KeywordIdle
LabelNext == CallExtractLabelValue \/ CallExtractSection
SpecLabel == LabelInit /\ [][LabelNext]_vars

DetailInit == DetailStart /\ SelIdle /\ RepIdle /\ LedIdle /\ WrIdle /\ MainIdle /\ ParseIdle /\ LabelIdle /\ DiscoverIdle /\ KeywordIdle
DetailNext == DetailsLine \/ DetailsReturn
SpecDetails == DetailInit /\ [][DetailNext]_vars

DiscoverInit == DiscoverStart /\ SelIdle /\ RepIdle /\ LedIdle /\ WrIdle /\ MainIdle /\ ParseIdle /\ LabelIdle /\ DetailIdle /\ KeywordIdle
DiscoverNext == CallDiscoverPlugins
SpecDiscover == DiscoverInit /\ [][DiscoverNext]_vars

KeywordInit == KeywordStart /\ SelIdle /\ RepIdle /\ LedIdle /\ WrIdle /\ MainIdle /\ ParseIdle /\ LabelIdle /\ DetailIdle /\ DiscoverIdle
KeywordNext == CallExtractKeywords
SpecKeywords == KeywordInit /\ [][KeywordNext]_vars

PickInit == PickStart /\ RepIdle /\ LedIdle /\ WrIdle /\ MainIdle /\ ParseIdle /\ LaterIdle
PickNext == PickPlugin
SpecPick == PickInit /\ [][PickNext]_vars

SelInit == SelStart /\ RepIdle /\ LedIdle /\ WrIdle /\ MainIdle /\ ParseIdle /\ LaterIdle
SelNext == ScorePlugins \/ PickPlugin
SpecSelect == SelInit /\ [][SelNext]_vars

RepInit == RepStart /\ SelIdle /\ LedIdle /\ WrIdle /\ MainIdle /\ ParseIdle /\ LaterIdle
RepNext == AssembleRecordPcts
SpecRepair == RepInit /\ [][RepNext]_vars

LedInit == LedStart /\ SelIdle /\ RepIdle /\ WrIdle /\ MainIdle /\ ParseIdle /\ LaterIdle
LedNext == WriteCsv
SpecLedger == LedInit /\ [][LedNext]_vars

WrInit == WrStart /\ SelIdle /\ RepIdle /\ MainIdle /\ ParseIdle /\ LaterIdle
WrNext ==
    \E w \in Writers :
        \/ Load(w)
        \/ Open(w)
        \/ WriteHeader(w)
        \/ WriteRow(w)
        \/ WriteRowRaises(w)
        \/ Close(w)
        \/ Kill(w)
SpecWriters == WrInit /\ [][WrNext]_vars

MainInit == MainStart /\ SelIdle /\ RepIdle /\ WrIdle /\ ParseIdle /\ LaterIdle
MainNext ==
    \/ MainSetupExits
    \/ MainSetup
    \/ RunTesseract
    \/ RunTesseractRaises
    \/ ResolvePlugin
    \/ PromptUser
    \/ MainReturnsTextOnly
    \/ MainWrites
SpecMain == MainInit /\ [][MainNext]_vars

ParseInit == ParseStart /\ SelIdle /\ RepIdle /\ LedIdle /\ WrIdle /\ MainIdle /\ LaterIdle
ParseNext == FordpassParse \/ ChargeParserParse
SpecParse == ParseInit /\ [][ParseNext]_vars

=============================================================================
